---- MODULE Spec2Model ----
(***************************************************************************)
(* Door-to-door routing core of travel-arbitrage-poc.                      *)
(*                                                                         *)
(* Spec     : searchItinerariesDoorToDoor (src/src/routing/                *)
(*            generalizedCost.js, lines 224-398) with the helpers it       *)
(*            calls, one action per way a pass through the main loop can   *)
(*            go.                                                          *)
(*                                                                         *)
(* Conventions.                                                            *)
(*  - A JavaScript number that can be NaN is a record [k, v]: k = "num"    *)
(*    with the value v, k = "nan", k = "undef" (a missing property) or     *)
(*    k = "null".                                                          *)
(*  - A missing property of an object is a missing field of the record.    *)
(*    A node whose id is null (createAddressNode) is a record without id.  *)
(*  - Generalized costs are kept in units of 1/CostScale of a currency     *)
(*    unit, CostScale = 60 * 700, so that timeValuePerHour * minutes / 60  *)
(*    and timeValuePerHour * km / 700 are integers.                        *)
(*  - Timestamps are epoch milliseconds (what Date.parse returns).         *)
(*  - Coordinates are whole degrees and the node table lies on a line, so  *)
(*    that Math.sqrt(dx*dx + dy*dy) is a whole number.                     *)
(***************************************************************************)
EXTENDS Integers, Sequences, FiniteSets, TLC

VARIABLES
  adj,            \* buildGraph().adj : node id -> list of {edge_leg, offer}
  originSpec,     \* originSpec argument (after the seeding loop set the ids)
  destSpec,       \* destSpec argument
  params,         \* params argument
  frontier,       \* frontier array
  dominanceMap,   \* dominanceMap : <<nodeId, bucket>> -> genCost
  bestCost,       \* bestCost (Null until a destination state was popped)
  bestState,      \* bestState (<<>> for null, <<state>> otherwise)
  expansions,     \* expansions counter
  startTime,      \* startTime = Date.now() before seeding
  now,            \* the wall clock, Date.now()
  pc,             \* "loop" | "returned" | "threw"
  result,         \* the value returned (<<>> while none)
  popped,         \* history: the states shifted off the frontier, in order
  arcLog,         \* history: [from, leg, outcome] for every arc the loop handled
  generated,      \* history: [state, dropped] for every successor state created
  apiCache,       \* the api_cache table: its rows, in insertion order
  pendingUpdates, \* UPDATE statements apiCacheGet has issued and not yet applied
  openHandles,    \* database handles returned by openDb() and not closed
  lastCall,       \* the latest cache call: its arguments and how it settled
  putLog,         \* history: the apiCachePut calls that resolved
  getLog,         \* history: [id, valid] for every apiCacheGet that found a row
  area,           \* the area table: its rows, in id order
  location_node,  \* the location_node table: its rows, in id order
  edge_leg,       \* the edge_leg table: its rows, in id order
  offer,          \* the offer table: its rows, in id order
  normalized,     \* the latest normalizePlaceSpec call: its input and how it settled
  built           \* buildGraph: how far it has got and what it holds

vars == << adj, originSpec, destSpec, params, frontier, dominanceMap, bestCost,
           bestState, expansions, startTime, now, pc, result, popped, arcLog,
           generated, apiCache, pendingUpdates, openHandles, lastCall, putLog,
           getLog, area, location_node, edge_leg, offer, normalized, built >>

\* the variables of the API cache
cacheVars == << apiCache, pendingUpdates, openHandles, lastCall, putLog, getLog >>

\* the persisted tables of the graph and the calls that read them
storeVars == << area, location_node, edge_leg, offer, normalized, built >>

\* no table is loaded and neither normalizePlaceSpec nor buildGraph was called
StoreUnused ==
  /\ area = <<>>
  /\ location_node = <<>>
  /\ edge_leg = <<>>
  /\ offer = <<>>
  /\ normalized = <<>>
  /\ built = <<>>

\* no cache call has been made
CacheUnused ==
  /\ apiCache = <<>>
  /\ pendingUpdates = <<>>
  /\ openHandles = 0
  /\ lastCall = <<>>
  /\ putLog = <<>>
  /\ getLog = <<>>

---------------------------------------------------------------------------
(* Bounds of the model *)

MaxClock == 2          \* the wall clock is followed for this many ms
MaxRandomId == 1       \* synthetic ids are drawn from -(0..MaxRandomId)

---------------------------------------------------------------------------
(* Program constants *)

DefaultMaxExpansions == 100000
DefaultTimeoutMs == 5000
DefaultTimeValuePerHour == 20
DefaultTransferPenalty == 6
DefaultRiskPenalty == 0
MaxDetourFactorTenths == 22      \* maxDetourFactor = 2.2, in tenths
KmPerDegree == 111
FastModeKmh == 700
MinutesPerHour == 60
MsPerMinute == 60000
BucketMs == 5 * 60 * 1000
CostScale == MinutesPerHour * FastModeKmh

---------------------------------------------------------------------------
(* JavaScript values *)

Num(v) == [k |-> "num", v |-> v]
NaN == [k |-> "nan", v |-> 0]
Undefined == [k |-> "undef", v |-> 0]
Null == [k |-> "null", v |-> 0]
IsNum(x) == x.k = "num"

\* obj.f where the property holds a plain number
Prop(obj, f) == IF f \in DOMAIN obj THEN Num(obj[f]) ELSE Undefined
\* obj.f where the property holds a JavaScript number record
PropJs(obj, f) == IF f \in DOMAIN obj THEN obj[f] ELSE Undefined

\* a + b, a - b : NaN as soon as one side is NaN or undefined
JsAdd(a, b) == IF IsNum(a) /\ IsNum(b) THEN Num(a.v + b.v) ELSE NaN
JsSub(a, b) == IF IsNum(a) /\ IsNum(b) THEN Num(a.v - b.v) ELSE NaN
\* a >= b, a <= b, a < b, a > b : false as soon as one side is NaN
JsGe(a, b) == IsNum(a) /\ IsNum(b) /\ a.v >= b.v
JsLe(a, b) == IsNum(a) /\ IsNum(b) /\ a.v <= b.v
JsLt(a, b) == IsNum(a) /\ IsNum(b) /\ a.v < b.v
JsGt(a, b) == IsNum(a) /\ IsNum(b) /\ a.v > b.v

\* the value undefined where an object is expected
UndefinedObj == [undefined |-> TRUE]
IsUndefinedObj(x) == "undefined" \in DOMAIN x

\* Math.sqrt on the whole numbers the node table produces
Isqrt(n) == CHOOSE r \in 0..n : r * r <= n /\ (r + 1) * (r + 1) > n

\* Math.sqrt(dx * dx + dy * dy) for JavaScript numbers dx, dy
Hypot(dx, dy) ==
  IF IsNum(dx) /\ IsNum(dy) THEN Num(Isqrt(dx.v * dx.v + dy.v * dy.v)) ELSE NaN

---------------------------------------------------------------------------
(* The graph: buildGraph() returns {nodes, adj} *)

\* location_node rows (id, lat, lon): A, B, X on a line, F far away.
\* A and B are one degree (about 111 km) apart; F is five degrees from A.
Nodes ==
  << [id |-> 1, lat |-> 0, lon |-> 0],
     [id |-> 2, lat |-> 0, lon |-> 1],
     [id |-> 3, lat |-> 0, lon |-> 2],
     [id |-> 4, lat |-> 0, lon |-> 5] >>

NodeIds == { Nodes[i].id : i \in 1..Len(Nodes) }

\* nodeById.get(id): the node, or undefined
NodeById(id) ==
  IF id \in NodeIds
    THEN Nodes[CHOOSE i \in 1..Len(Nodes) : Nodes[i].id = id]
    ELSE UndefinedObj

\* One timed arc {edge_leg, offer} as buildAdjacency pairs them: the edge row
\* with the fields the search reads, and the offer row. depMin and durMin are
\* minutes; the timestamps are epoch milliseconds.
Leg(edgeId, from, to, mode, isTransfer, depMin, durMin, price) ==
  [ edge_leg |-> [ id |-> edgeId, origin_node_id |-> from,
                   destination_node_id |-> to, mode |-> mode,
                   is_transfer |-> isTransfer ],
    offer    |-> [ edge_leg_id |-> edgeId,
                   departure_time_utc |-> depMin * MsPerMinute,
                   arrival_time_utc |-> (depMin + durMin) * MsPerMinute,
                   price_total |-> price ] ]

\* The arcs a graph of the model is made of.
ArcUniverse ==
  << Leg(1, 1, 2, "flight", 0, 480, 75, 118),    \* A -> B flight
     Leg(2, 1, 2, "bus", 0, 480, 260, 25),       \* A -> B bus
     Leg(3, 1, 3, "flight", 0, 480, 60, 80),     \* A -> X flight
     Leg(4, 3, 2, "bus", 1, 540, 120, 20),       \* X -> B bus, a transfer
     Leg(5, 1, 4, "flight", 0, 480, 30, 10) >>   \* A -> F, five degrees away

RECURSIVE SelectArcs(_, _, _)
\* the arcs of ArcUniverse, from index i on, that are in `chosen` and leave `from`
SelectArcs(chosen, from, i) ==
  IF i > Len(ArcUniverse) THEN <<>>
  ELSE IF i \in chosen /\ ArcUniverse[i].edge_leg.origin_node_id = from
    THEN <<ArcUniverse[i]>> \o SelectArcs(chosen, from, i + 1)
    ELSE SelectArcs(chosen, from, i + 1)

\* buildAdjacency: adj[n.id] = [] for every node, then one entry per
\* (edge, offer) pushed onto adj[e.origin_node_id], in edge order.
AdjacencyOf(chosen) == [ n \in NodeIds |-> SelectArcs(chosen, n, 1) ]

\* adj[state.nodeId] || []
Outgoing(a, nodeId) == IF nodeId \in DOMAIN a THEN a[nodeId] ELSE <<>>

---------------------------------------------------------------------------
(* generalizedCost.js *)

\* const { name = dflt } = params
Param(p, name, dflt) == IF name \in DOMAIN p THEN p[name] ELSE dflt

\* minutesBetween(startUtc, endUtc)
minutesBetween(startUtc, endUtc) == (endUtc - startUtc) \div MsPerMinute

\* computeLegGeneralizedCost(partial, leg, params)
computeLegGeneralizedCost(partial, leg, p) ==
  LET timeValuePerHour == Param(p, "timeValuePerHour", DefaultTimeValuePerHour)
      transferPenalty  == Param(p, "transferPenalty", DefaultTransferPenalty)
      riskPenalty      == Param(p, "riskPenalty", DefaultRiskPenalty)
      genCostSoFar     == PropJs(partial, "genCostSoFar")
      transfersSoFar   == PropJs(partial, "transfersSoFar")
      durationMin      == minutesBetween(leg.offer.departure_time_utc,
                                         leg.offer.arrival_time_utc)
      cash             == leg.offer.price_total
      isTransfer       == leg.edge_leg.is_transfer = 1
      transferPenaltyCost == IF isTransfer THEN transferPenalty ELSE 0
      legCost == cash * CostScale
                   + timeValuePerHour * durationMin * FastModeKmh
                   + transferPenaltyCost * CostScale
                   + riskPenalty * CostScale
  IN [ newGenCost     |-> JsAdd(genCostSoFar, Num(legCost)),
       newTransfers   |-> JsAdd(transfersSoFar, Num(IF isTransfer THEN 1 ELSE 0)),
       legDurationMin |-> durationMin ]

Throw == [k |-> "throw", v |-> 0]

\* estimateLowerBound(originNode, destNode, params): a TypeError when one of
\* the two is undefined, otherwise timeValuePerHour * distKm / 700.
estimateLowerBound(originNode, destNode, p) ==
  IF IsUndefinedObj(originNode) \/ IsUndefinedObj(destNode) THEN Throw
  ELSE
    LET timeValuePerHour == Param(p, "timeValuePerHour", DefaultTimeValuePerHour)
        dx == JsSub(Prop(originNode, "lat"), Prop(destNode, "lat"))
        dy == JsSub(Prop(originNode, "lon"), Prop(destNode, "lon"))
        distDeg == Hypot(dx, dy)
    IN IF IsNum(distDeg)
         THEN Num(timeValuePerHour * distDeg.v * KmPerDegree * MinutesPerHour)
         ELSE NaN

\* shouldPrune(partial, nextLeg, bestCost, destNode, params):
\* "prune" (true), "keep" (false) or "throw" (a TypeError).
shouldPrune(partial, nextLeg, best, destNode, p) ==
  LET maxDetourTenths == Param(p, "maxDetourFactorTenths", MaxDetourFactorTenths)
      newGenCost == computeLegGeneralizedCost(partial, nextLeg, p).newGenCost
      lb == estimateLowerBound(nextLeg.edge_leg, destNode, p)
  IN IF best.k # "null" /\ JsGe(newGenCost, best) THEN "prune"
     ELSE IF lb.k = "throw" THEN "throw"
     ELSE IF best.k # "null" /\ JsGe(JsAdd(newGenCost, lb), best) THEN "prune"
     ELSE IF "origin" \notin DOMAIN partial THEN "throw"
     ELSE
       LET origin == partial.origin
           distSoFar ==
             Hypot(JsSub(Prop(origin, "lat"), Prop(nextLeg.edge_leg, "destination_lat")),
                   JsSub(Prop(origin, "lon"), Prop(nextLeg.edge_leg, "destination_lon")))
           directDist ==
             Hypot(JsSub(Prop(origin, "lat"), Prop(destNode, "lat")),
                   JsSub(Prop(origin, "lon"), Prop(destNode, "lon")))
       IN IF IsNum(distSoFar) /\ IsNum(directDist)
               /\ 10 * distSoFar.v * KmPerDegree
                    > maxDetourTenths * directDist.v * KmPerDegree
            THEN "prune"
            ELSE "keep"

---------------------------------------------------------------------------
(* search.js *)

\* createState(nodeId, arrivalTimeUtc, genCost, transfers, path)
createState(nodeId, arrivalTimeUtc, genCost, transfers, path) ==
  [ nodeId |-> nodeId, arrivalTimeUtc |-> arrivalTimeUtc, genCost |-> genCost,
    transfers |-> transfers, path |-> path ]

\* makeDominanceKey(nodeId, arrivalTimeUtc)
makeDominanceKey(nodeId, arrivalTimeUtc) == << nodeId, arrivalTimeUtc \div BucketMs >>

\* isDominated with the comparison prevBest < state.genCost
isDominated_Strict(state, dm) ==
  LET key == << state.nodeId, state.arrivalTimeUtc \div BucketMs >>
      known == key \in DOMAIN dm
  IN IF known /\ JsLt(dm[key], state.genCost)
       THEN [ dominated |-> TRUE, map |-> dm ]
       ELSE [ dominated |-> FALSE,
              map |-> [ k \in DOMAIN dm \cup {key} |->
                          IF k = key THEN state.genCost ELSE dm[k] ] ]

\* isDominated with the dominance key taken from the exact arrival time
isDominated_ExactTime(state, dm) ==
  LET key == << state.nodeId, state.arrivalTimeUtc >>
      known == key \in DOMAIN dm
  IN IF known /\ JsLe(dm[key], state.genCost)
       THEN [ dominated |-> TRUE, map |-> dm ]
       ELSE [ dominated |-> FALSE,
              map |-> [ k \in DOMAIN dm \cup {key} |->
                          IF k = key THEN state.genCost ELSE dm[k] ] ]

\* isDominated recording a cost only for a key the map does not hold yet
isDominated_KeepFirst(state, dm) ==
  LET key == << state.nodeId, state.arrivalTimeUtc \div BucketMs >>
      known == key \in DOMAIN dm
  IN IF known /\ JsLe(dm[key], state.genCost)
       THEN [ dominated |-> TRUE, map |-> dm ]
       ELSE [ dominated |-> FALSE,
              map |-> [ k \in DOMAIN dm \cup {key} |->
                          IF k \in DOMAIN dm THEN dm[k] ELSE state.genCost ] ]

\* isDominated(state, dominanceMap): the answer and the map afterwards
isDominated(state, dm) ==
  LET key == makeDominanceKey(state.nodeId, state.arrivalTimeUtc)
      known == key \in DOMAIN dm
  IN IF known /\ JsLe(dm[key], state.genCost)
       THEN [ dominated |-> TRUE, map |-> dm ]
       ELSE [ dominated |-> FALSE,
              map |-> [ k \in DOMAIN dm \cup {key} |->
                          IF k = key THEN state.genCost ELSE dm[k] ] ]

\* n.id of a spec node, where a node whose id is null has no id field
HasId(n) == "id" \in DOMAIN n

\* isDestination(state, destSpec)
isDestination(state, spec) ==
  IF Param(spec, "isAddress", FALSE)
    THEN HasId(spec.nodes[1]) /\ state.nodeId = spec.nodes[1].id
  ELSE IF Param(spec, "isArea", FALSE) \/ Param(spec, "isHotelQuery", FALSE)
    THEN \E i \in 1..Len(spec.nodes) :
           HasId(spec.nodes[i]) /\ spec.nodes[i].id = state.nodeId
  ELSE FALSE

\* extractDestinationNodes(destSpec)
extractDestinationNodes(spec) == spec.nodes

---------------------------------------------------------------------------
(* searchItinerariesDoorToDoor: its arguments *)

\* a node of a place spec: a location_node row, or what createAddressNode
\* returns (id: null, hash-derived coordinates that the search never reads)
SpecNode(id) == NodeById(id)
AddressNode == [ kind |-> "address" ]

\* the node lists an origin spec can carry (persisted node ids; 0 stands for
\* a synthetic address node)
OriginChoices == { <<1>>, <<2>>, <<3>>, <<1, 2>>, <<2, 1>>, <<0>> }

\* the destination specs: what normalizePlaceSpec returns (an area with its
\* nodes, an area without nodes, an address with its synthetic node, the
\* hotel fallback with a synthetic node) and an address spec a caller built
\* on a persisted node
DestChoices ==
  { [ isArea |-> TRUE, nodes |-> <<SpecNode(2)>> ],
    [ isArea |-> TRUE, nodes |-> <<SpecNode(1)>> ],
    [ isArea |-> TRUE, nodes |-> <<SpecNode(2), SpecNode(3)>> ],
    [ isArea |-> TRUE, nodes |-> <<>> ],
    [ isAddress |-> TRUE, nodes |-> <<AddressNode>> ],
    [ isAddress |-> TRUE, nodes |-> <<SpecNode(2)>> ],
    [ isHotelQuery |-> TRUE, nodes |-> <<AddressNode>> ] }

\* the params objects: maxExpansions and timeoutMs given or left to their
\* defaults, everything else left to its default
ParamChoices ==
  { [ x \in {} |-> 0 ] }
    \cup { [ maxExpansions |-> m ] : m \in {0, 1} }
    \cup { [ timeoutMs |-> t ] : t \in {0, 1} }
    \cup { [ maxExpansions |-> m, timeoutMs |-> t ] : m \in {0, 1}, t \in {0, 1} }

maxExpansions == Param(params, "maxExpansions", DefaultMaxExpansions)
timeoutMs == Param(params, "timeoutMs", DefaultTimeoutMs)

\* the seeding loop giving a node without id a positive id
SeedNode_Colliding(id, r) == IF id = 0 THEN [ kind |-> "address", id |-> r + 1 ]
                             ELSE NodeById(id)

\* the seeding loop: a node whose id is null gets -floor(random * 1e6)
SeedNode(id, r) == IF id = 0 THEN [ kind |-> "address", id |-> -r ]
                   ELSE SpecNode(id)

\* one seed per origin node: createState(orig.id, now, 0, 0, [])
Seeds(nodes, clock) ==
  [ i \in 1..Len(nodes) |-> createState(nodes[i].id, clock, Num(0), Num(0), <<>>) ]

NoResult == <<>>

Init ==
  /\ \E chosen \in SUBSET (1..Len(ArcUniverse)) : adj = AdjacencyOf(chosen)
  /\ \E ids \in OriginChoices, r \in 0..MaxRandomId :
       originSpec = [ nodes |-> [ i \in 1..Len(ids) |-> SeedNode(ids[i], r) ] ]
  /\ destSpec \in DestChoices
  /\ params \in ParamChoices
  /\ now = 0
  /\ startTime = 0
  /\ frontier = Seeds(originSpec.nodes, 0)
  /\ dominanceMap = [ x \in {} |-> Num(0) ]
  /\ bestCost = Null
  /\ bestState = <<>>
  /\ expansions = 0
  /\ pc = "loop"
  /\ result = NoResult
  /\ popped = <<>>
  /\ arcLog = <<>>
  /\ generated = <<>>
  /\ CacheUnused
  /\ StoreUnused

---------------------------------------------------------------------------
(* searchItinerariesDoorToDoor: the main loop *)

RECURSIVE InsertSorted(_, _)
\* x put behind every element that does not compare greater than it
InsertSorted(x, sorted) ==
  IF sorted = <<>> THEN <<x>>
  ELSE IF JsGt(Head(sorted).genCost, x.genCost) THEN <<x>> \o sorted
  ELSE <<Head(sorted)>> \o InsertSorted(x, Tail(sorted))

RECURSIVE SortFrom(_, _, _)
SortFrom(f, i, acc) ==
  IF i > Len(f) THEN acc ELSE SortFrom(f, i + 1, InsertSorted(f[i], acc))

RECURSIVE InsertBeforeEquals(_, _)
\* x put in front of every element that does not compare less than it
InsertBeforeEquals(x, sorted) ==
  IF sorted = <<>> THEN <<x>>
  ELSE IF JsGe(Head(sorted).genCost, x.genCost) THEN <<x>> \o sorted
  ELSE <<Head(sorted)>> \o InsertBeforeEquals(x, Tail(sorted))

RECURSIVE SortReversingTies(_, _, _)
SortReversingTies(f, i, acc) ==
  IF i > Len(f) THEN acc
  ELSE SortReversingTies(f, i + 1, InsertBeforeEquals(f[i], acc))

\* a sort by genCost that puts states of equal genCost in reverse order
SortFrontier_TiesReversed(f) == SortReversingTies(f, 1, <<>>)

\* frontier.sort((a, b) => a.genCost - b.genCost): a stable sort
SortFrontier(f) == SortFrom(f, 1, <<>>)

\* nodeById.get(destNodes[0].id), for a non-empty destNodes
DestNodeArg(spec) ==
  LET d == extractDestinationNodes(spec)[1]
  IN IF HasId(d) THEN NodeById(d.id) ELSE UndefinedObj

RECURSIVE ProcessLegs(_, _, _, _)
\* the for loop over the outgoing legs of `state`, from leg i on; acc carries the
\* frontier, the dominance map, the histories and whether a TypeError ended the
\* loop
ProcessLegs(state, legs, i, acc) ==
  IF i > Len(legs) \/ acc.threw THEN acc
  ELSE
    LET leg == legs[i]
        verdict ==
          IF Len(extractDestinationNodes(destSpec)) = 0 THEN "throw"
          ELSE shouldPrune(state, leg, bestCost, DestNodeArg(destSpec), params)
    IN IF verdict = "throw"
         THEN [ acc EXCEPT !.threw = TRUE,
                           !.log = Append(@, [ from |-> state, leg |-> leg,
                                               outcome |-> "threw" ]) ]
       ELSE IF verdict = "prune"
         THEN ProcessLegs(state, legs, i + 1,
                [ acc EXCEPT !.log = Append(@, [ from |-> state, leg |-> leg,
                                                 outcome |-> "pruned" ]) ])
       ELSE
         LET c == computeLegGeneralizedCost(state, leg, params)
             newState == createState(leg.edge_leg.destination_node_id,
                                     leg.offer.arrival_time_utc,
                                     c.newGenCost, c.newTransfers,
                                     Append(state.path, leg))
             d == isDominated(newState, acc.dom)
         IN IF d.dominated
              THEN ProcessLegs(state, legs, i + 1,
                     [ acc EXCEPT !.dom = d.map,
                                  !.gen = Append(@, [ state |-> newState,
                                                      dropped |-> TRUE ]),
                                  !.log = Append(@, [ from |-> state, leg |-> leg,
                                                      outcome |-> "dominated" ]) ])
              ELSE ProcessLegs(state, legs, i + 1,
                     [ acc EXCEPT !.dom = d.map,
                                  !.frontier = Append(@, newState),
                                  !.gen = Append(@, [ state |-> newState,
                                                      dropped |-> FALSE ]),
                                  !.log = Append(@, [ from |-> state, leg |-> leg,
                                                      outcome |-> "pushed" ]) ])

TimedOut == now - startTime > timeoutMs
OverBudget == expansions > maxExpansions

Return(status, best) ==
  /\ pc' = "returned"
  /\ result' = [ search_status |-> status, best_itinerary |-> best,
                 expansions |-> expansions' ]

\* Date.now() moves on between two passes of the loop
Tick ==
  /\ pc = "loop"
  /\ now < MaxClock
  /\ now' = now + 1
  /\ UNCHANGED << adj, originSpec, destSpec, params, frontier, dominanceMap,
                  bestCost, bestState, expansions, startTime, pc, result,
                  popped, arcLog, generated >>
  /\ UNCHANGED cacheVars
  /\ UNCHANGED storeVars

\* the timeout check returning the state popped last instead of bestState
TimeoutReturn_LastPopped ==
  /\ pc = "loop"
  /\ frontier # <<>>
  /\ TimedOut
  /\ expansions' = expansions
  /\ Return("TIME_BUDGET_EXHAUSTED",
            IF popped = <<>> THEN <<>> ELSE <<popped[Len(popped)]>>)
  /\ UNCHANGED << adj, originSpec, destSpec, params, frontier, dominanceMap,
                  bestCost, bestState, startTime, now, popped, arcLog, generated >>
  /\ UNCHANGED cacheVars
  /\ UNCHANGED storeVars

\* lines 291-297: the timeout check
TimeoutReturn ==
  /\ pc = "loop"
  /\ frontier # <<>>
  /\ TimedOut
  /\ expansions' = expansions
  /\ Return("TIME_BUDGET_EXHAUSTED", bestState)
  /\ UNCHANGED << adj, originSpec, destSpec, params, frontier, dominanceMap,
                  bestCost, bestState, startTime, now, popped, arcLog, generated >>
  /\ UNCHANGED cacheVars
  /\ UNCHANGED storeVars

\* lines 300-306: the expansion budget check
ExpansionBudgetReturn ==
  /\ pc = "loop"
  /\ frontier # <<>>
  /\ ~ TimedOut
  /\ OverBudget
  /\ expansions' = expansions
  /\ Return("TIME_BUDGET_EXHAUSTED", bestState)
  /\ UNCHANGED << adj, originSpec, destSpec, params, frontier, dominanceMap,
                  bestCost, bestState, startTime, now, popped, arcLog, generated >>
  /\ UNCHANGED cacheVars
  /\ UNCHANGED storeVars

\* lines 309-356: pop the cheapest state, which satisfies the destination
\* predicate; update the best solution; early termination check
PopDestination ==
  /\ pc = "loop"
  /\ frontier # <<>>
  /\ ~ TimedOut
  /\ ~ OverBudget
  /\ LET sorted == SortFrontier(frontier)
         state == Head(sorted)
         rest == Tail(sorted)
         improves == bestCost.k = "null" \/ JsLt(state.genCost, bestCost)
         newBestCost == IF improves THEN state.genCost ELSE bestCost
         newBestState == IF improves THEN <<state>> ELSE bestState
         lb == estimateLowerBound(NodeById(rest[1].nodeId),
                                  DestNodeArg(destSpec), params)
     IN /\ isDestination(state, destSpec)
        /\ expansions' = expansions + 1
        /\ popped' = Append(popped, state)
        /\ bestCost' = newBestCost
        /\ bestState' = newBestState
        /\ frontier' = rest
        /\ IF rest = <<>>
             THEN UNCHANGED << pc, result >>
           ELSE IF lb.k = "throw"
             THEN pc' = "threw" /\ UNCHANGED result
           ELSE IF JsGe(JsAdd(rest[1].genCost, lb), newBestCost)
             THEN Return("OK", newBestState)
           ELSE UNCHANGED << pc, result >>
  /\ UNCHANGED << adj, originSpec, destSpec, params, dominanceMap, startTime,
                  now, arcLog, generated >>
  /\ UNCHANGED cacheVars
  /\ UNCHANGED storeVars

\* lines 309-318 and 358-389: pop the cheapest state, which is no destination,
\* and handle its outgoing legs
Expand ==
  /\ pc = "loop"
  /\ frontier # <<>>
  /\ ~ TimedOut
  /\ ~ OverBudget
  /\ LET sorted == SortFrontier(frontier)
         state == Head(sorted)
         rest == Tail(sorted)
         outgoing == Outgoing(adj, state.nodeId)
         done == ProcessLegs(state, outgoing, 1,
                   [ frontier |-> rest, dom |-> dominanceMap, log |-> arcLog,
                     gen |-> generated, threw |-> FALSE ])
     IN /\ ~ isDestination(state, destSpec)
        /\ expansions' = expansions + 1
        /\ popped' = Append(popped, state)
        /\ frontier' = done.frontier
        /\ dominanceMap' = done.dom
        /\ arcLog' = done.log
        /\ generated' = done.gen
        /\ pc' = IF done.threw THEN "threw" ELSE pc
  /\ UNCHANGED << adj, originSpec, destSpec, params, bestCost, bestState,
                  startTime, now, result >>
  /\ UNCHANGED cacheVars
  /\ UNCHANGED storeVars

\* the return after the loop handing out the state popped last
DrainReturn_LastPopped ==
  /\ pc = "loop"
  /\ frontier = <<>>
  /\ expansions' = expansions
  /\ Return("NO_FEASIBLE_ROUTE",
            IF popped = <<>> THEN <<>> ELSE <<popped[Len(popped)]>>)
  /\ UNCHANGED << adj, originSpec, destSpec, params, frontier, dominanceMap,
                  bestCost, bestState, startTime, now, popped, arcLog, generated >>
  /\ UNCHANGED cacheVars
  /\ UNCHANGED storeVars

\* lines 392-397: the frontier is empty
DrainReturn ==
  /\ pc = "loop"
  /\ frontier = <<>>
  /\ expansions' = expansions
  /\ Return("NO_FEASIBLE_ROUTE", <<>>)
  /\ UNCHANGED << adj, originSpec, destSpec, params, frontier, dominanceMap,
                  bestCost, bestState, startTime, now, popped, arcLog, generated >>
  /\ UNCHANGED cacheVars
  /\ UNCHANGED storeVars

Next ==
  \/ Tick
  \/ TimeoutReturn
  \/ ExpansionBudgetReturn
  \/ PopDestination
  \/ Expand
  \/ DrainReturn

Spec == Init /\ [][Next]_vars

---------------------------------------------------------------------------
(* SpecDominance: the dominance check and the frontier on their own.        *)
(* In a whole search shouldPrune ends the run on the first outgoing leg, so *)
(* no successor state reaches lines 376-388. This specification applies     *)
(* those lines (createState, isDominated, frontier.push) and the pop of     *)
(* lines 309-312 to successor states drawn from a small set.                *)

MaxGenerated == 3      \* successor states created in one run

\* the successor states: at node X, arriving at 09:00, 09:01 (the same 5-minute
\* bucket) or 09:05 (the next one), with genCost 50, 55 or 60
SuccessorChoices ==
  { createState(3, t * MsPerMinute, Num(c * CostScale), Num(0), <<>>) :
      t \in {540, 541, 545}, c \in {50, 55, 60} }

InitDominance ==
  /\ adj = AdjacencyOf({})
  /\ originSpec = [ nodes |-> <<>> ]
  /\ destSpec = [ isArea |-> TRUE, nodes |-> <<SpecNode(2)>> ]
  /\ params = [ x \in {} |-> 0 ]
  /\ now = 0
  /\ startTime = 0
  /\ frontier = <<>>
  /\ dominanceMap = [ x \in {} |-> Num(0) ]
  /\ bestCost = Null
  /\ bestState = <<>>
  /\ expansions = 0
  /\ pc = "loop"
  /\ result = NoResult
  /\ popped = <<>>
  /\ arcLog = <<>>
  /\ generated = <<>>
  /\ CacheUnused
  /\ StoreUnused

\* lines 385-388: if (isDominated(newState, dominanceMap)) continue;
\* frontier.push(newState)
GenerateSuccessor ==
  /\ Len(generated) < MaxGenerated
  /\ \E newState \in SuccessorChoices :
       LET d == isDominated(newState, dominanceMap)
       IN /\ dominanceMap' = d.map
          /\ frontier' = IF d.dominated THEN frontier ELSE Append(frontier, newState)
          /\ generated' = Append(generated, [ state |-> newState,
                                              dropped |-> d.dominated ])
  /\ UNCHANGED << adj, originSpec, destSpec, params, bestCost, bestState,
                  expansions, startTime, now, pc, result, popped, arcLog >>
  /\ UNCHANGED cacheVars
  /\ UNCHANGED storeVars

\* lines 309-312: sort the frontier, shift the cheapest state off, count it
PopState ==
  /\ frontier # <<>>
  /\ LET sorted == SortFrontier(frontier)
     IN /\ popped' = Append(popped, Head(sorted))
        /\ frontier' = Tail(sorted)
  /\ expansions' = expansions + 1
  /\ UNCHANGED << adj, originSpec, destSpec, params, dominanceMap, bestCost,
                  bestState, startTime, now, pc, result, arcLog, generated >>
  /\ UNCHANGED cacheVars
  /\ UNCHANGED storeVars

NextDominance == GenerateSuccessor \/ PopState

SpecDominance == InitDominance /\ [][NextDominance]_vars

---------------------------------------------------------------------------
(* SpecSuccessor: successor creation on its own.                            *)
(* Lines 370-388 (computeLegGeneralizedCost, createState, isDominated,      *)
(* frontier.push) applied to a state of the frontier and one of its         *)
(* outgoing legs, without the shouldPrune call that precedes them.          *)

MaxSuccessors == 2     \* successor states created in one run

InitSuccessor ==
  /\ \E chosen \in SUBSET (1..Len(ArcUniverse)) : adj = AdjacencyOf(chosen)
  /\ \E ids \in { <<1>>, <<3>>, <<1, 3>> } :
       originSpec = [ nodes |-> [ i \in 1..Len(ids) |-> SpecNode(ids[i]) ] ]
  /\ destSpec = [ isArea |-> TRUE, nodes |-> <<SpecNode(2)>> ]
  /\ params = [ x \in {} |-> 0 ]
  /\ now = 0
  /\ startTime = 0
  /\ frontier = Seeds(originSpec.nodes, 0)
  /\ dominanceMap = [ x \in {} |-> Num(0) ]
  /\ bestCost = Null
  /\ bestState = <<>>
  /\ expansions = 0
  /\ pc = "loop"
  /\ result = NoResult
  /\ popped = <<>>
  /\ arcLog = <<>>
  /\ generated = <<>>
  /\ CacheUnused
  /\ StoreUnused

\* lines 370-388 for one state and one leg of adj[state.nodeId]
CreateSuccessor ==
  /\ Len(generated) < MaxSuccessors
  /\ \E i \in 1..Len(frontier) :
       LET state == frontier[i]
           outgoing == Outgoing(adj, state.nodeId)
       IN \E l \in 1..Len(outgoing) :
            LET leg == outgoing[l]
                c == computeLegGeneralizedCost(state, leg, params)
                newState == createState(leg.edge_leg.destination_node_id,
                                        leg.offer.arrival_time_utc,
                                        c.newGenCost, c.newTransfers,
                                        Append(state.path, leg))
                d == isDominated(newState, dominanceMap)
            IN /\ dominanceMap' = d.map
               /\ frontier' = IF d.dominated THEN frontier
                              ELSE Append(frontier, newState)
               /\ generated' = Append(generated, [ state |-> newState,
                                                   dropped |-> d.dominated,
                                                   from |-> state ])
  /\ UNCHANGED << adj, originSpec, destSpec, params, bestCost, bestState,
                  expansions, startTime, now, pc, result, popped, arcLog >>
  /\ UNCHANGED cacheVars
  /\ UNCHANGED storeVars

NextSuccessor == CreateSuccessor

SpecSuccessor == InitSuccessor /\ [][NextSuccessor]_vars

---------------------------------------------------------------------------
(* apiCache.js: JSON values and canonicalHash *)

\* JSON values: numbers, strings, null, and objects as the sequence of their
\* <<key, value>> properties in insertion order
JNum(n) == [ t |-> "num", num |-> n, str |-> "", props |-> <<>> ]
JStr(x) == [ t |-> "str", num |-> 0, str |-> x, props |-> <<>> ]
JNull == [ t |-> "null", num |-> 0, str |-> "", props |-> <<>> ]
JObj(props) == [ t |-> "obj", num |-> 0, str |-> "", props |-> props ]

\* the property names used, and their order as strings (UTF-16 code units)
KeyNames == { "a", "b", "z" }
KeyRank(k) == CASE k = "a" -> 1 [] k = "b" -> 2 [] k = "z" -> 3

\* Object.keys(obj)
ObjectKeys(obj) == [ i \in 1..Len(obj.props) |-> obj.props[i][1] ]

HasOwn(obj, k) == \E i \in 1..Len(obj.props) : obj.props[i][1] = k
GetOwn(obj, k) == obj.props[CHOOSE i \in 1..Len(obj.props) : obj.props[i][1] = k][2]

RECURSIVE InsertKey(_, _)
InsertKey(k, sorted) ==
  IF sorted = <<>> THEN <<k>>
  ELSE IF KeyRank(k) < KeyRank(Head(sorted)) THEN <<k>> \o sorted
  ELSE <<Head(sorted)>> \o InsertKey(k, Tail(sorted))

RECURSIVE SortKeys(_)
\* keys.sort(): ascending string order
SortKeys(keys) ==
  IF keys = <<>> THEN <<>> ELSE InsertKey(Head(keys), SortKeys(Tail(keys)))

RECURSIVE StringifyWith(_, _)
\* the text JSON.stringify(value, allow) writes, as the tree it spells out:
\* with an array replacer every object, at every depth, is written with only
\* the properties named in the array, in the array's order
StringifyWith(value, allow) ==
  IF value.t # "obj" THEN value
  ELSE
    LET present == SelectSeq(allow, LAMBDA k : HasOwn(value, k))
    IN JObj([ i \in 1..Len(present) |->
                << present[i], StringifyWith(GetOwn(value, present[i]), allow) >> ])

\* JSON.stringify(value): every property, in insertion order
JsonStringify(value) == [ text |-> value ]

\* JSON.parse(text)
JsonParse(text) == text.text

\* sha256 hex digest, taken to be free of collisions
Sha256(text) == [ sha256 |-> text ]

\* canonicalHash with the object's keys left in insertion order
canonicalHash_Unsorted(obj) ==
  Sha256([ text |-> StringifyWith(obj, ObjectKeys(obj)) ])

\* canonicalHash(obj)
canonicalHash(obj) ==
  Sha256([ text |-> StringifyWith(obj, SortKeys(ObjectKeys(obj))) ])

---------------------------------------------------------------------------
(* apiCache.js: apiCacheGet and apiCachePut over the api_cache table *)

MaxCacheCalls == 2     \* cache calls in one run
MaxCacheHours == 2     \* the wall clock is followed for this many hours

DefaultTtlHours == 6
MsPerHour == 3600 * 1000

\* date.toISOString() and Date.parse(text), exact to the millisecond
ToISOString(ms) == [ iso |-> ms ]
DateParse(text) == text.iso

\* the arguments of the calls
Providers == { "amadeus" }
Endpoints == { "flights" }
CacheParams ==
  { JObj(<< <<"a", JNum(1)>>, <<"b", JNum(2)>> >>),
    JObj(<< <<"b", JNum(2)>>, <<"a", JNum(1)>> >>),
    JObj(<< <<"z", JNum(3)>>, <<"b", JNum(2)>>, <<"a", JNum(1)>> >>),
    JObj(<< <<"a", JObj(<< <<"z", JNum(1)>> >>)>> >>),
    JObj(<< <<"a", JObj(<< <<"z", JNum(2)>> >>)>> >>) }
Responses == { JStr("r1"), JObj(<< <<"fare", JNum(118)>> >>) }
\* ttlHours given, or left to its default
TtlArgs == { <<>>, <<1>> }

\* the row of the table with this key: its index, or 0
\* (SELECT * FROM api_cache WHERE provider=? AND endpoint=? AND canonical_params_hash=?)
RowIndex(provider, endpoint, hash) ==
  LET found == { i \in 1..Len(apiCache) :
                   /\ apiCache[i].provider = provider
                   /\ apiCache[i].endpoint = endpoint
                   /\ apiCache[i].canonical_params_hash = hash }
  IN IF found = {} THEN 0 ELSE CHOOSE i \in found : \A j \in found : i <= j

\* the unique index that is never consulted
ViolatesUniqueIndex_Off(provider, endpoint, hash) == FALSE

\* idx_api_cache_key: an INSERT with a key that has a row fails
ViolatesUniqueIndex(provider, endpoint, hash) ==
  RowIndex(provider, endpoint, hash) # 0

\* the validity test with now <= expires
IsValid_Inclusive(row, t) == t <= DateParse(row.expires_at_utc)

\* const valid = now < expires
IsValid(row, t) == t < DateParse(row.expires_at_utc)

\* the UPDATE statement issued only for a row that is still valid
IssuesUpdate_ValidOnly(row, t) == IsValid(row, t)

\* lines 30-41: the UPDATE statement is issued for every row found, before the
\* validity of the row is looked at
IssuesUpdate(row, t) == TRUE

Resolved(value) == [ settled |-> "resolved", value |-> value ]
Rejected(err) == [ settled |-> "rejected", value |-> JStr(err) ]

searchVars == << adj, originSpec, destSpec, params, frontier, dominanceMap,
                 bestCost, bestState, expansions, startTime, pc, result,
                 popped, arcLog, generated >>

InitCache ==
  /\ adj = AdjacencyOf({})
  /\ originSpec = [ nodes |-> <<>> ]
  /\ destSpec = [ isArea |-> TRUE, nodes |-> <<>> ]
  /\ params = [ x \in {} |-> 0 ]
  /\ now = 0
  /\ startTime = 0
  /\ frontier = <<>>
  /\ dominanceMap = [ x \in {} |-> Num(0) ]
  /\ bestCost = Null
  /\ bestState = <<>>
  /\ expansions = 0
  /\ pc = "idle"
  /\ result = NoResult
  /\ popped = <<>>
  /\ arcLog = <<>>
  /\ generated = <<>>
  /\ CacheUnused
  /\ StoreUnused

\* Date.now() moves on by an hour
CacheTick ==
  /\ now < MaxCacheHours * MsPerHour
  /\ now' = now + MsPerHour
  /\ UNCHANGED searchVars
  /\ UNCHANGED storeVars
  /\ UNCHANGED cacheVars

\* apiCacheGet(provider, endpoint, params); storeError: db.get calls back with
\* an error
apiCacheGet ==
  /\ openHandles < MaxCacheCalls
  /\ \E provider \in Providers, endpoint \in Endpoints, p \in CacheParams,
        storeError \in BOOLEAN :
       LET hash == canonicalHash(p)
           i == RowIndex(provider, endpoint, hash)
           call == [ op |-> "get", provider |-> provider, endpoint |-> endpoint,
                     params |-> p, hash |-> hash, at |-> now,
                     storeError |-> storeError ]
       IN /\ openHandles' = openHandles + 1
          /\ IF storeError
               THEN /\ lastCall' = << call, Rejected("SQLITE_ERROR") >>
                    /\ UNCHANGED << pendingUpdates, getLog >>
             ELSE IF i # 0
               THEN /\ pendingUpdates' =
                         IF IssuesUpdate(apiCache[i], now)
                           THEN Append(pendingUpdates,
                                       [ id |-> apiCache[i].id,
                                         last_used_at_utc |-> ToISOString(now) ])
                           ELSE pendingUpdates
                    /\ getLog' = Append(getLog,
                                        [ id |-> apiCache[i].id,
                                          valid |-> IsValid(apiCache[i], now) ])
                    /\ lastCall' =
                         << call,
                            IF IsValid(apiCache[i], now)
                              THEN Resolved(JsonParse(apiCache[i].response_body_json))
                              ELSE Resolved(JNull) >>
             ELSE /\ lastCall' = << call, Resolved(JNull) >>
                  /\ UNCHANGED << pendingUpdates, getLog >>
  /\ UNCHANGED << apiCache, putLog, now >>
  /\ UNCHANGED searchVars
  /\ UNCHANGED storeVars

\* UPDATE api_cache SET last_used_at_utc=?, hit_count=hit_count+1 WHERE id=?
\* one of the statements issued by apiCacheGet is applied
ApplyUpdate ==
  /\ \E u \in 1..Len(pendingUpdates) :
       /\ apiCache' =
            [ i \in 1..Len(apiCache) |->
                IF apiCache[i].id = pendingUpdates[u].id
                  THEN [ apiCache[i] EXCEPT
                           !.last_used_at_utc = pendingUpdates[u].last_used_at_utc,
                           !.hit_count = @ + 1 ]
                  ELSE apiCache[i] ]
       /\ pendingUpdates' =
            [ i \in 1..(Len(pendingUpdates) - 1) |->
                IF i < u THEN pendingUpdates[i] ELSE pendingUpdates[i + 1] ]
  /\ UNCHANGED << openHandles, lastCall, putLog, getLog, now >>
  /\ UNCHANGED searchVars
  /\ UNCHANGED storeVars

\* apiCachePut(provider, endpoint, params, response, ttlHours = 6);
\* storeError: the INSERT fails for a reason other than the unique index
apiCachePut ==
  /\ openHandles < MaxCacheCalls
  /\ \E provider \in Providers, endpoint \in Endpoints, p \in CacheParams,
        response \in Responses, ttlArg \in TtlArgs, storeError \in BOOLEAN :
       LET hash == canonicalHash(p)
           ttlHours == IF ttlArg = <<>> THEN DefaultTtlHours ELSE ttlArg[1]
           expires == now + ttlHours * MsPerHour
           lastID == Len(apiCache) + 1
           call == [ op |-> "put", provider |-> provider, endpoint |-> endpoint,
                     params |-> p, hash |-> hash, at |-> now,
                     storeError |-> storeError, response |-> response,
                     ttlHours |-> ttlHours ]
           row == [ id |-> lastID, provider |-> provider, endpoint |-> endpoint,
                    canonical_params_hash |-> hash,
                    canonical_params_json |-> JsonStringify(p),
                    response_body_json |-> JsonStringify(response),
                    created_at_utc |-> ToISOString(now),
                    expires_at_utc |-> ToISOString(expires),
                    last_used_at_utc |-> ToISOString(now),
                    hit_count |-> 0 ]
       IN /\ openHandles' = openHandles + 1
          /\ IF storeError
               THEN /\ lastCall' = << call, Rejected("SQLITE_ERROR") >>
                    /\ UNCHANGED << apiCache, putLog >>
             ELSE IF ViolatesUniqueIndex(provider, endpoint, hash)
               THEN /\ lastCall' = << call, Rejected("SQLITE_CONSTRAINT") >>
                    /\ UNCHANGED << apiCache, putLog >>
             ELSE /\ apiCache' = Append(apiCache, row)
                  /\ putLog' = Append(putLog, call)
                  /\ lastCall' = << call, Resolved(JNum(lastID)) >>
  /\ UNCHANGED << pendingUpdates, getLog, now >>
  /\ UNCHANGED searchVars
  /\ UNCHANGED storeVars

NextCache ==
  \/ CacheTick
  \/ apiCacheGet
  \/ ApplyUpdate
  \/ apiCachePut

SpecCache == InitCache /\ [][NextCache]_vars

---------------------------------------------------------------------------
(* Claims about the result of a search *)

\* the search is over: it returned or a TypeError ended it
Finished == pc \in {"returned", "threw"}

\* the run ended without either budget check ending it
NoBudgetBreach == pc = "returned" => result.search_status # "TIME_BUDGET_EXHAUSTED"

\* some state popped so far satisfied the destination predicate
FoundDestination == \E i \in 1..Len(popped) : isDestination(popped[i], destSpec)

\* the loop ended on its condition: the frontier is empty (the two budget
\* returns and the early-termination return all leave a non-empty frontier)
EndedOnEmptyFrontier == pc = "returned" /\ frontier = <<>>

\* C1: when the main loop ends because the frontier is empty, the result is OK
\* with the best destination state if some popped state satisfied the
\* destination predicate, and NO_FEASIBLE_ROUTE with a null best_itinerary only
\* if none did.
C1_DrainedResult ==
  EndedOnEmptyFrontier =>
    IF FoundDestination
      THEN /\ result.search_status = "OK"
           /\ result.best_itinerary = bestState
           /\ bestState # <<>>
      ELSE /\ result.search_status = "NO_FEASIBLE_ROUTE"
           /\ result.best_itinerary = <<>>

\* some origin node satisfies the destination predicate
OriginIsDestination ==
  \E i \in 1..Len(originSpec.nodes) :
    isDestination(createState(originSpec.nodes[i].id, 0, Num(0), Num(0), <<>>),
                  destSpec)

\* C2: when an origin node satisfies the destination predicate, the search
\* (budgets not breached) returns OK with a best itinerary of zero legs,
\* genCost 0 and 0 transfers, also when that node is the only seed.
C2_OriginIsDestinationResult ==
  (pc = "returned" /\ NoBudgetBreach /\ OriginIsDestination) =>
    /\ result.search_status = "OK"
    /\ result.best_itinerary # <<>>
    /\ result.best_itinerary[1].path = <<>>
    /\ result.best_itinerary[1].genCost = Num(0)
    /\ result.best_itinerary[1].transfers = Num(0)

\* C3: every run ends by returning one of the three statuses; no step of the
\* main loop ends the run with an exception.
\* (stated for destination specs whose nodes are persisted nodes of the graph)
PersistedDestination ==
  /\ Len(destSpec.nodes) > 0
  /\ \A i \in 1..Len(destSpec.nodes) :
       HasId(destSpec.nodes[i]) /\ destSpec.nodes[i].id \in NodeIds
PersistedOrigin ==
  \A i \in 1..Len(originSpec.nodes) : originSpec.nodes[i].id \in NodeIds

C3_NoException ==
  (PersistedDestination /\ PersistedOrigin) =>
    /\ pc # "threw"
    /\ pc = "returned" =>
         result.search_status \in {"OK", "TIME_BUDGET_EXHAUSTED", "NO_FEASIBLE_ROUTE"}

---------------------------------------------------------------------------
(* Claims about the itinerary found *)

\* the search runs from the origin nodes `from` to the destination nodes `to`
\* over the graph made of the arcs `chosen`, with default parameters
Scenario(chosen, from, to) ==
  /\ adj = AdjacencyOf(chosen)
  /\ originSpec.nodes = [ i \in 1..Len(from) |-> SpecNode(from[i]) ]
  /\ destSpec.nodes = [ i \in 1..Len(to) |-> SpecNode(to[i]) ]
  /\ params = [ x \in {} |-> 0 ]

\* price + timeValuePerHour * (minutes / 60) + transfer penalty + risk penalty
\* of one leg, with the default parameters, in 1/CostScale of a currency unit
LegCostOf(leg) ==
  leg.offer.price_total * CostScale
    + DefaultTimeValuePerHour
        * ((leg.offer.arrival_time_utc - leg.offer.departure_time_utc)
             \div MsPerMinute) * FastModeKmh
    + (IF leg.edge_leg.is_transfer = 1 THEN DefaultTransferPenalty * CostScale ELSE 0)
    + DefaultRiskPenalty * CostScale

RECURSIVE PathCostOf(_)
PathCostOf(path) ==
  IF path = <<>> THEN 0 ELSE LegCostOf(Head(path)) + PathCostOf(Tail(path))

RECURSIVE TransfersOf(_)
TransfersOf(path) ==
  IF path = <<>> THEN 0
  ELSE (IF Head(path).edge_leg.is_transfer = 1 THEN 1 ELSE 0) + TransfersOf(Tail(path))

\* the run returned OK with the itinerary `path`
ReturnedOkWith(path) ==
  /\ pc = "returned"
  /\ result.search_status = "OK"
  /\ result.best_itinerary # <<>>
  /\ result.best_itinerary[1].path = path
  /\ result.best_itinerary[1].genCost = Num(PathCostOf(path))
  /\ result.best_itinerary[1].transfers = Num(TransfersOf(path))

\* C4: on the graph with the single non-transfer arc A -> B (price p, d
\* minutes), the search from {A} to {B} with default parameters returns OK with
\* exactly that leg and genCost = p + timeValuePerHour * d / 60 (143 for the
\* flight of price 118 and 75 minutes).
C4_SingleArc ==
  /\ PathCostOf(<<ArcUniverse[1]>>) = 143 * CostScale
  /\ \A a \in {1, 2} :
       (Finished /\ Scenario({a}, <<1>>, <<2>>)) => ReturnedOkWith(<<ArcUniverse[a]>>)

\* whole degrees between two nodes with coordinates
DegBetween(a, b) ==
  Isqrt((a.lat - b.lat) * (a.lat - b.lat) + (a.lon - b.lon) * (a.lon - b.lon))

\* the detour rule: node n lies further from the origin node o than
\* maxDetourFactor times the straight line from o to the destination node
BeyondDetour(o, n) ==
  /\ o \in NodeIds /\ n \in NodeIds
  /\ PersistedDestination
  /\ 10 * DegBetween(NodeById(o), NodeById(n))
       > MaxDetourFactorTenths * DegBetween(NodeById(o), NodeById(destSpec.nodes[1].id))

Min(S) == CHOOSE x \in S : \A y \in S : x <= y

Unreachable == 0 - 1

RECURSIVE MinCostFrom(_, _, _)
\* the least generalized cost of a path of at most `depth` arcs from node n to
\* a node satisfying the destination predicate, over the arcs the detour rule
\* does not exclude for a path that started at o; Unreachable if there is none
MinCostFrom(o, n, depth) ==
  IF isDestination(createState(n, 0, Num(0), Num(0), <<>>), destSpec) THEN 0
  ELSE IF depth = 0 THEN Unreachable
  ELSE
    LET legs == Outgoing(adj, n)
        rest(i) == MinCostFrom(o, legs[i].edge_leg.destination_node_id, depth - 1)
        cands == { LegCostOf(legs[i]) + rest(i) :
                     i \in { j \in 1..Len(legs) :
                               /\ ~ BeyondDetour(o, legs[j].edge_leg.destination_node_id)
                               /\ rest(j) # Unreachable } }
    IN IF cands = {} THEN Unreachable ELSE Min(cands)

\* the least generalized cost from any origin node to any destination node
OptimalCost ==
  LET costs == { MinCostFrom(originSpec.nodes[i].id, originSpec.nodes[i].id,
                             Len(ArcUniverse)) : i \in 1..Len(originSpec.nodes) }
                 \ {Unreachable}
  IN IF costs = {} THEN Unreachable ELSE Min(costs)

\* C5: whenever the search returns OK, the genCost of best_itinerary is the
\* least generalized cost over all paths from an origin node to a destination
\* node that the detour rule does not exclude; with a flight arc (118, 75 min)
\* and a bus arc (25, 260 min) from A to B the bus arc is returned.
C5_OptimalItinerary ==
  /\ (pc = "returned" /\ result.search_status = "OK") =>
       /\ result.best_itinerary # <<>>
       /\ result.best_itinerary[1].genCost = Num(OptimalCost)
  /\ (Finished /\ Scenario({1, 2}, <<1>>, <<2>>)) => ReturnedOkWith(<<ArcUniverse[2]>>)

\* every state the search holds: in the frontier, popped, or the best one
StatesCreated ==
  { frontier[i] : i \in 1..Len(frontier) }
    \cup { popped[i] : i \in 1..Len(popped) }
    \cup { bestState[i] : i \in 1..Len(bestState) }

\* C6: every state created has transfers = the number of transfer legs of its
\* path and genCost = the sum of its legs' costs; for A -> X (flight, 60 min,
\* 80) then X -> B (transfer bus, 120 min, 20) the returned state has genCost
\* 166 and 1 transfer.
C6_CostAndTransfersOfPath ==
  /\ \A st \in StatesCreated :
       /\ st.genCost = Num(PathCostOf(st.path))
       /\ st.transfers = Num(TransfersOf(st.path))
  /\ PathCostOf(<<ArcUniverse[3], ArcUniverse[4]>>) = 166 * CostScale
  /\ TransfersOf(<<ArcUniverse[3], ArcUniverse[4]>>) = 1
  /\ (Finished /\ Scenario({3, 4}, <<1>>, <<2>>)) =>
       ReturnedOkWith(<<ArcUniverse[3], ArcUniverse[4]>>)

\* the origin node of the path a state stands for
OriginOf(st) ==
  IF st.path = <<>> THEN st.nodeId ELSE st.path[1].edge_leg.origin_node_id

---------------------------------------------------------------------------
(* Claims about the budgets *)

\* C10: with maxExpansions = 0 and at least one origin node, the search pops
\* no state and returns TIME_BUDGET_EXHAUSTED with a null best_itinerary.
C10_ZeroExpansionBudget ==
  ("maxExpansions" \in DOMAIN params /\ params.maxExpansions = 0
     /\ Len(originSpec.nodes) > 0 /\ PersistedOrigin /\ PersistedDestination) =>
    /\ popped = <<>>
    /\ Finished =>
         /\ pc = "returned"
         /\ result.search_status = "TIME_BUDGET_EXHAUSTED"
         /\ result.best_itinerary = <<>>

\* C11: with timeoutMs = 0 the search returns TIME_BUDGET_EXHAUSTED with a null
\* best_itinerary whatever the clock reads at the first budget check, also when
\* the clock has not moved since the search started: no state is popped.
C11_ZeroTimeout ==
  ("timeoutMs" \in DOMAIN params /\ params.timeoutMs = 0
     /\ "maxExpansions" \notin DOMAIN params
     /\ Len(originSpec.nodes) > 0 /\ PersistedOrigin /\ PersistedDestination) =>
    /\ popped = <<>>
    /\ Finished =>
         /\ pc = "returned"
         /\ result.search_status = "TIME_BUDGET_EXHAUSTED"
         /\ result.best_itinerary = <<>>

\* the destination states popped so far
PoppedDestinations ==
  { popped[i] : i \in { j \in 1..Len(popped) : isDestination(popped[j], destSpec) } }

\* C12: whenever the search returns TIME_BUDGET_EXHAUSTED, best_itinerary is
\* null if no destination state has been popped, and otherwise is the
\* lowest-genCost destination state popped, whose genCost is at least the
\* optimum of the graph.
C12_BudgetResultIsCurrentBest ==
  (pc = "returned" /\ result.search_status = "TIME_BUDGET_EXHAUSTED") =>
    IF PoppedDestinations = {}
      THEN result.best_itinerary = <<>>
      ELSE /\ result.best_itinerary # <<>>
           /\ result.best_itinerary[1] \in PoppedDestinations
           /\ \A d \in PoppedDestinations :
                JsLe(result.best_itinerary[1].genCost, d.genCost)
           /\ OptimalCost # Unreachable
           /\ JsGe(result.best_itinerary[1].genCost, Num(OptimalCost))

\* a budget check ended a run that had already popped a state
C12_Witness ==
  /\ pc = "returned"
  /\ result.search_status = "TIME_BUDGET_EXHAUSTED"
  /\ popped # <<>>

\* no origin node satisfies the destination predicate and none has an outgoing
\* arc
OriginsWithoutArcs ==
  /\ Len(originSpec.nodes) > 0
  /\ ~ OriginIsDestination
  /\ \A i \in 1..Len(originSpec.nodes) : Outgoing(adj, originSpec.nodes[i].id) = <<>>

\* C13: if no origin node satisfies the destination predicate and every origin
\* node has an empty or absent adjacency entry, the search (no budget breached)
\* returns NO_FEASIBLE_ROUTE with a null best_itinerary, also from a synthetic
\* address node.
C13_NoArcsFromOrigin ==
  OriginsWithoutArcs =>
    /\ pc # "threw"
    /\ (pc = "returned" /\ NoBudgetBreach) =>
         /\ result.search_status = "NO_FEASIBLE_ROUTE"
         /\ result.best_itinerary = <<>>

\* a search from a synthetic address node ended with NO_FEASIBLE_ROUTE
C13_Witness ==
  /\ OriginsWithoutArcs
  /\ "kind" \in DOMAIN originSpec.nodes[1]
  /\ pc = "returned"
  /\ result.search_status = "NO_FEASIBLE_ROUTE"
  /\ popped # <<>>

RECURSIVE MinCostToDestination(_, _)
\* the least generalized cost of a path of at most `depth` arcs from node n to
\* a node satisfying the destination predicate; Unreachable if there is none
MinCostToDestination(n, depth) ==
  IF isDestination(createState(n, 0, Num(0), Num(0), <<>>), destSpec) THEN 0
  ELSE IF depth = 0 THEN Unreachable
  ELSE
    LET legs == Outgoing(adj, n)
        rest(i) == MinCostToDestination(legs[i].edge_leg.destination_node_id, depth - 1)
        cands == { LegCostOf(legs[i]) + rest(i) :
                     i \in { j \in 1..Len(legs) : rest(j) # Unreachable } }
    IN IF cands = {} THEN Unreachable ELSE Min(cands)

\* the lower bound the search uses for node u: lines 334-338
LowerBoundUsed(u) == estimateLowerBound(NodeById(u), DestNodeArg(destSpec), params)

\* C15: lower-bound admissibility. For every node u from which a destination
\* node is reachable, the lower bound the search uses for u does not exceed the
\* least generalized cost of a path from u to a node satisfying the destination
\* predicate, also when the destination spec has several nodes.
C15_LowerBoundAdmissible ==
  PersistedDestination =>
    \A u \in NodeIds :
      MinCostToDestination(u, Len(ArcUniverse)) # Unreachable =>
        JsLe(LowerBoundUsed(u), Num(MinCostToDestination(u, Len(ArcUniverse))))

---------------------------------------------------------------------------
(* Claims about determinism *)

RECURSIVE RunLegs(_, _, _, _, _)
\* lines 363-389 as a function: the legs of `state` from leg i on, with the
\* best cost `best`; acc carries the frontier, the dominance map and whether a
\* TypeError ended the loop
RunLegs(state, legs, i, acc, best) ==
  IF i > Len(legs) \/ acc.threw THEN acc
  ELSE
    LET leg == legs[i]
        verdict ==
          IF Len(extractDestinationNodes(destSpec)) = 0 THEN "throw"
          ELSE shouldPrune(state, leg, best, DestNodeArg(destSpec), params)
    IN IF verdict = "throw" THEN [ acc EXCEPT !.threw = TRUE ]
       ELSE IF verdict = "prune" THEN RunLegs(state, legs, i + 1, acc, best)
       ELSE
         LET c == computeLegGeneralizedCost(state, leg, params)
             newState == createState(leg.edge_leg.destination_node_id,
                                     leg.offer.arrival_time_utc,
                                     c.newGenCost, c.newTransfers,
                                     Append(state.path, leg))
             d == isDominated(newState, acc.dom)
         IN RunLegs(state, legs, i + 1,
              [ acc EXCEPT !.dom = d.map,
                           !.frontier = IF d.dominated THEN @ ELSE Append(@, newState) ],
              best)

RunThrew == [ ended |-> "threw", status |-> "", best |-> <<>> ]
RunReturned(status, best) == [ ended |-> "returned", status |-> status, best |-> best ]

RECURSIVE RunLoop(_)
\* lines 289-397 as a function of the loop's local state, for a run in which
\* the timeout check never fires: how the run ends
RunLoop(st) ==
  IF st.frontier = <<>> THEN RunReturned("NO_FEASIBLE_ROUTE", <<>>)
  ELSE IF st.expansions > maxExpansions
    THEN RunReturned("TIME_BUDGET_EXHAUSTED", st.bestState)
  ELSE
    LET sorted == SortFrontier(st.frontier)
        state == Head(sorted)
        rest == Tail(sorted)
    IN IF isDestination(state, destSpec)
         THEN
           LET improves == st.bestCost.k = "null" \/ JsLt(state.genCost, st.bestCost)
               newBestCost == IF improves THEN state.genCost ELSE st.bestCost
               newBestState == IF improves THEN <<state>> ELSE st.bestState
               lb == estimateLowerBound(NodeById(rest[1].nodeId),
                                        DestNodeArg(destSpec), params)
               after == [ st EXCEPT !.frontier = rest, !.bestCost = newBestCost,
                                    !.bestState = newBestState,
                                    !.expansions = @ + 1 ]
           IN IF rest = <<>> THEN RunLoop(after)
              ELSE IF lb.k = "throw" THEN RunThrew
              ELSE IF JsGe(JsAdd(rest[1].genCost, lb), newBestCost)
                THEN RunReturned("OK", newBestState)
              ELSE RunLoop(after)
         ELSE
           LET done == RunLegs(state, Outgoing(adj, state.nodeId), 1,
                               [ frontier |-> rest, dom |-> st.dom, threw |-> FALSE ],
                               st.bestCost)
           IN IF done.threw THEN RunThrew
              ELSE RunLoop([ st EXCEPT !.frontier = done.frontier, !.dom = done.dom,
                                       !.expansions = @ + 1 ])

\* the origin nodes of this run, seeded with the random draw r
Reseeded(r) ==
  [ i \in 1..Len(originSpec.nodes) |->
      IF "kind" \in DOMAIN originSpec.nodes[i] THEN SeedNode(0, r)
      ELSE originSpec.nodes[i] ]

\* a run over this run's graph, specs and parameters with the random draw r
RunWith(r) ==
  RunLoop([ frontier |-> Seeds(Reseeded(r), 0),
            dom |-> [ x \in {} |-> Num(0) ],
            bestCost |-> Null, bestState |-> <<>>, expansions |-> 0 ])

\* how this run ended
ThisRun ==
  IF pc = "returned" THEN RunReturned(result.search_status, result.best_itinerary)
  ELSE RunThrew

\* what the claim compares: the status, the best genCost, the sequence of legs
Observed(o) ==
  [ ended |-> o.ended, status |-> o.status,
    genCost |-> IF o.best = <<>> THEN Null ELSE o.best[1].genCost,
    legs |-> IF o.best = <<>> THEN <<>> ELSE o.best[1].path ]

\* C16: determinism. A run that ends without a budget breach ends as every
\* other run over the same graph, specs and parameters does, whatever the
\* clock read and whatever ids the seeding loop drew: same status, same best
\* genCost, same sequence of legs.
C16_Deterministic ==
  (Finished /\ NoBudgetBreach) =>
    \A r \in 0..MaxRandomId : Observed(RunWith(r)) = Observed(ThisRun)

\* a run from a synthetic origin node, seeded with a non-zero random id, ended
\* without a budget breach
C16_Witness ==
  /\ Finished /\ NoBudgetBreach
  /\ popped # <<>>
  /\ \E i \in 1..Len(originSpec.nodes) :
       "kind" \in DOMAIN originSpec.nodes[i] /\ originSpec.nodes[i].id # 0

---------------------------------------------------------------------------
(* Claims about dominance (checked under SpecDominance) *)

KeyOf(st) == makeDominanceKey(st.nodeId, st.arrivalTimeUtc)

\* generated[i] and generated[j] share a dominance key
SameKey(i, j) == KeyOf(generated[i].state) = KeyOf(generated[j].state)

CostOf(i) == generated[i].state.genCost

WasPopped(st) == \E k \in 1..Len(popped) : popped[k] = st

---------------------------------------------------------------------------
(* Claims about the API cache (checked under SpecCache) *)

\* the latest call was an apiCacheGet whose lookup did not fail
LastGetAnswered ==
  lastCall # <<>> /\ lastCall[1].op = "get" /\ ~ lastCall[1].storeError

\* the apiCachePut calls that resolved for the key of `call`
PutsOfKey(call) ==
  { i \in 1..Len(putLog) :
      /\ putLog[i].provider = call.provider
      /\ putLog[i].endpoint = call.endpoint
      /\ putLog[i].hash = call.hash }

\* the time at which what putLog[i] stored expires
ExpiryOf(i) == putLog[i].at + putLog[i].ttlHours * MsPerHour

\* C17: cache round trip with expiry. After apiCachePut(provider, endpoint,
\* params, r, ttl) succeeded at time t, apiCacheGet for the same key resolves to
\* r at every time before t + ttl and to null at every time from t + ttl on;
\* apiCacheGet for a key that was never put resolves to null.
C17_RoundTripWithExpiry ==
  LastGetAnswered =>
    LET g == lastCall[1]
    IN IF PutsOfKey(g) = {} THEN lastCall[2] = Resolved(JNull)
       ELSE \A i \in PutsOfKey(g) :
              IF g.at < ExpiryOf(i)
                THEN lastCall[2] = Resolved(putLog[i].response)
                ELSE lastCall[2] = Resolved(JNull)

\* a get found the stored entry expired and resolved to null
C17_Witness ==
  /\ LastGetAnswered
  /\ \E i \in PutsOfKey(lastCall[1]) :
       lastCall[1].at >= ExpiryOf(i) /\ lastCall[2] = Resolved(JNull)

SameCacheKey(r1, r2) ==
  /\ r1.provider = r2.provider
  /\ r1.endpoint = r2.endpoint
  /\ r1.canonical_params_hash = r2.canonical_params_hash

\* C18: the cache holds at most one row per (provider, endpoint, canonical
\* params hash); an apiCachePut for a key that already has a row ends in an
\* error (no second put for a key ever resolves) and the row keeps the
\* response, created and expires timestamps its first put wrote.
C18_OneRowPerKey ==
  /\ \A i, j \in 1..Len(apiCache) : SameCacheKey(apiCache[i], apiCache[j]) => i = j
  /\ \A i, j \in 1..Len(putLog) : j \in PutsOfKey(putLog[i]) => i = j
  /\ Len(apiCache) = Len(putLog)
  /\ \A i \in 1..Len(apiCache) :
       /\ apiCache[i].canonical_params_hash = putLog[i].hash
       /\ apiCache[i].response_body_json = JsonStringify(putLog[i].response)
       /\ apiCache[i].created_at_utc = ToISOString(putLog[i].at)
       /\ apiCache[i].expires_at_utc = ToISOString(ExpiryOf(i))
  /\ (lastCall # <<>> /\ lastCall[1].op = "put" /\ lastCall[2].settled = "resolved") =>
       /\ putLog # <<>>
       /\ putLog[Len(putLog)] = lastCall[1]
       /\ lastCall[2].value = JNum(apiCache[Len(apiCache)].id)

\* a put with another response for a key that has a row was rejected, and the
\* row still holds the response stored first
C18_Witness ==
  /\ lastCall # <<>>
  /\ lastCall[1].op = "put"
  /\ lastCall[2] = Rejected("SQLITE_CONSTRAINT")
  /\ \E i \in PutsOfKey(lastCall[1]) :
       /\ putLog[i].response # lastCall[1].response
       /\ apiCache[i].response_body_json = JsonStringify(putLog[i].response)

\* C19: a store error is never fatal to the caller: apiCacheGet resolves to
\* null when the lookup fails, and apiCachePut does not reject when the insert
\* fails.
C19_StoreErrorIsCacheMiss ==
  (lastCall # <<>> /\ lastCall[1].storeError) =>
    IF lastCall[1].op = "get"
      THEN lastCall[2] = Resolved(JNull)
      ELSE lastCall[2].settled = "resolved"

\* the objects with the properties of obj in every order
KeyOrders(obj) ==
  LET n == Len(obj.props)
  IN { JObj([ i \in 1..n |-> obj.props[f[i]] ]) :
         f \in { g \in [1..n -> 1..n] : \A x, y \in 1..n : g[x] = g[y] => x = y } }

\* C20: canonicalHash is invariant under key reordering: every permutation of
\* the top-level keys of a params object has the hash of that object.
C20_HashIgnoresKeyOrder ==
  lastCall # <<>> =>
    \A q \in KeyOrders(lastCall[1].params) : canonicalHash(q) = lastCall[1].hash

\* a call hashed a params object whose keys were not in sorted order
C20_Witness ==
  /\ lastCall # <<>>
  /\ ObjectKeys(lastCall[1].params) # SortKeys(ObjectKeys(lastCall[1].params))
  /\ Len(lastCall[1].params.props) = 3

RECURSIVE SameTree(_, _)
\* two JSON values are equal as unordered key/value trees
SameTree(x, y) ==
  IF x.t # "obj" \/ y.t # "obj" THEN x = y
  ELSE /\ Len(x.props) = Len(y.props)
       /\ \A i \in 1..Len(x.props) :
            /\ HasOwn(y, x.props[i][1])
            /\ SameTree(x.props[i][2], GetOwn(y, x.props[i][1]))

\* C21: the canonical serialization keeps every key and value at every
\* nesting level: two params objects get the same hash if and only if they are
\* equal as unordered key/value trees, so params that differ only in a nested
\* object's key or value never map to the same cache key.
C21_HashSeparatesNestedParams ==
  lastCall # <<>> =>
    \A q \in CacheParams :
      (canonicalHash(q) = lastCall[1].hash) <=> SameTree(q, lastCall[1].params)


---------------------------------------------------------------------------
(* Place normalization: normalizePlaceSpec(specRaw)
   A string is the sequence of its pieces: a piece is a run of characters
   without white space, or one white-space character. *)

Space == " "

\* the sum of the character codes of a piece
CharCodeSum(piece) ==
  CASE piece = " " -> 32
    [] piece = "address:" -> 800
    [] piece = "hotel" -> 540
    [] piece = "Hotel" -> 508
    [] piece = "s" -> 115
    [] piece = "near" -> 422
    [] piece = "Near" -> 390
    [] piece = "rome" -> 435
    [] piece = "Rome" -> 403
    [] piece = "nord" -> 435
    [] piece = "Nord" -> 403
    [] piece = "oslo" -> 445
    [] piece = "Oslo" -> 413
    [] piece = "main" -> 421
    [] piece = "termini" -> 760
    [] piece = "Termini" -> 728
    [] OTHER -> 0

\* String.prototype.toLowerCase, piece by piece
LowerPiece(piece) ==
  CASE piece = "Hotel" -> "hotel"
    [] piece = "Near" -> "near"
    [] piece = "Rome" -> "rome"
    [] piece = "Nord" -> "nord"
    [] piece = "Oslo" -> "oslo"
    [] piece = "Termini" -> "termini"
    [] OTHER -> piece

toLowerCase(str) == [ i \in 1..Len(str) |-> LowerPiece(str[i]) ]

RECURSIVE trimStart(_)
trimStart(str) ==
  IF str # <<>> /\ Head(str) = Space THEN trimStart(Tail(str)) ELSE str

RECURSIVE trimEnd(_)
trimEnd(str) ==
  IF str # <<>> /\ str[Len(str)] = Space
    THEN trimEnd(SubSeq(str, 1, Len(str) - 1))
    ELSE str

\* String.prototype.trim
trim(str) == trimEnd(trimStart(str))

\* String.prototype.startsWith
startsWith(str, prefix) ==
  Len(str) >= Len(prefix) /\ SubSeq(str, 1, Len(prefix)) = prefix

\* str contains part as a run of consecutive pieces
includes(str, part) ==
  \E i \in 1..(Len(str) + 1) :
    i + Len(part) - 1 <= Len(str) /\ SubSeq(str, i, i + Len(part) - 1) = part

RECURSIVE splitFrom(_, _, _)
\* str.split(/\s+/) from piece i on; word is the word being collected
splitFrom(str, i, word) ==
  IF i > Len(str) THEN << word >>
  ELSE IF str[i] = Space
    THEN IF i > 1 /\ str[i - 1] = Space
           THEN splitFrom(str, i + 1, word)
           ELSE << word >> \o splitFrom(str, i + 1, <<>>)
    ELSE splitFrom(str, i + 1, Append(word, str[i]))

\* str.split(/\s+/): the words of the string
split(str) == splitFrom(str, 1, <<>>)

\* words.indexOf(word), counted from 0; -1 when absent
indexOf(words, word) ==
  IF \E i \in 1..Len(words) : words[i] = word
    THEN (CHOOSE i \in 1..Len(words) :
            words[i] = word /\ \A j \in 1..(i - 1) : words[j] # word) - 1
    ELSE 0 - 1

RECURSIVE join(_)
\* words.join(" ")
join(words) ==
  IF words = <<>> THEN <<>>
  ELSE IF Len(words) = 1 THEN words[1]
  ELSE words[1] \o << Space >> \o join(Tail(words))

RECURSIVE HashOf(_)
\* [...addressString].reduce((a, c) => a + c.charCodeAt(0), 0)
HashOf(str) == IF str = <<>> THEN 0 ELSE CharCodeSum(Head(str)) + HashOf(Tail(str))

\* geocodeAddressRaw: coordinates in thousandths of a degree
geocodeAddressRaw(addressString) ==
  [ lat |-> Num(39000 + (HashOf(addressString) % 100)),
    lon |-> Num(0 - 86000 - (HashOf(addressString) % 100)) ]

\* createAddressNode: id and area_id are null (no field here)
createAddressNode(address, lat, lon) ==
  [ name |-> address, kind |-> "address", lat |-> lat, lon |-> lon, is_hub |-> 0 ]

\* an area row and a location_node row, with the columns the routing code reads
AreaRow(id, name) == [ id |-> id, name |-> name ]
NodeRow(id, name, kind, areaId, lat, lon) ==
  [ id |-> id, name |-> name, kind |-> kind, area_id |-> areaId,
    lat |-> lat, lon |-> lon ]

AreaLookupLimit == 5

\* lookupAreaByName: SELECT * FROM area WHERE name LIKE '%name%' LIMIT 5.
\* LIKE does not distinguish the case of letters.
lookupAreaByName(rows, nameRaw) ==
  LET Match(r) == includes(toLowerCase(r.name), toLowerCase(nameRaw))
      found == SelectSeq(rows, Match)
  IN  SubSeq(found, 1, IF Len(found) < AreaLookupLimit THEN Len(found)
                       ELSE AreaLookupLimit)

\* lookupNodesInArea: SELECT * FROM location_node WHERE area_id = ?
lookupNodesInArea(rows, areaId) ==
  LET InArea(r) == r.area_id = areaId
  IN  SelectSeq(rows, InArea)

\* n.kind === NodeKind.HOTEL || /hotel/i.test(n.name)
LooksLikeHotel(n) ==
  n.kind = "hotel" \/ \E i \in 1..Len(n.name) : LowerPiece(n.name[i]) = "hotel"

IsHotelNode(n) == LooksLikeHotel(n)

\* how a call of normalizePlaceSpec settles; lookups counts the area lookups
\* it made
Settled(how, value, lookups) ==
  [ settled |-> how, value |-> value, areaLookups |-> lookups ]

StoreError == [ error |-> "SQLITE_ERROR" ]

\* the area lookup chooses the last area found
PickArea_Last(areas) == areas[Len(areas)]

\* const area = areas[0]
PickArea(areas) == areas[1]

\* branch (2) of normalizePlaceSpec, the string starting with "hotel".
\* fail names the lookup that calls back with an error, if any.
NormalizeHotel(spec, fail) ==
  LET words == split(spec)
      nearIndex == indexOf(words, << "near" >>)
      fallback == [ isHotelQuery |-> TRUE,
                    nodes |-> << createAddressNode(spec, geocodeAddressRaw(spec).lat,
                                                   geocodeAddressRaw(spec).lon) >> ]
  IN  IF nearIndex # 0 - 1 /\ nearIndex < Len(words) - 1
        THEN LET target == join(SubSeq(words, nearIndex + 2, Len(words)))
                 areas == lookupAreaByName(area, target)
             IN  IF fail = "areas" THEN Settled("rejected", StoreError, 1)
                 ELSE IF Len(areas) > 0
                   THEN IF fail = "nodes" THEN Settled("rejected", StoreError, 1)
                        ELSE Settled("resolved",
                               [ isHotelQuery |-> TRUE,
                                 area |-> PickArea(areas),
                                 nodes |-> SelectSeq(
                                   lookupNodesInArea(location_node, PickArea(areas).id),
                                   IsHotelNode) ], 1)
                   ELSE Settled("resolved", fallback, 1)
        ELSE Settled("resolved", fallback, 0)

\* branches (3) and (4): the area lookup on the whole string and the fallback
NormalizeArea(spec, fail) ==
  LET areas == lookupAreaByName(area, spec)
  IN  IF fail = "areas" THEN Settled("rejected", StoreError, 1)
      ELSE IF Len(areas) > 0
        THEN IF fail = "nodes" THEN Settled("rejected", StoreError, 1)
             ELSE Settled("resolved",
                    [ isArea |-> TRUE,
                      area |-> PickArea(areas),
                      nodes |-> lookupNodesInArea(location_node, PickArea(areas).id) ], 1)
        ELSE Settled("resolved",
               [ isAddress |-> TRUE,
                 address |-> spec,
                 nodes |-> << createAddressNode(spec, geocodeAddressRaw(spec).lat,
                                                geocodeAddressRaw(spec).lon) >> ], 1)

\* what normalizePlaceSpec(specRaw) settles with
Normalize(specRaw, fail) ==
  LET spec == trim(specRaw)
  IN  IF startsWith(spec, << "address:" >>)
        THEN LET addr == trim(Tail(spec))
             IN  Settled("resolved",
                   [ isAddress |-> TRUE,
                     address |-> addr,
                     nodes |-> << createAddressNode(addr, geocodeAddressRaw(addr).lat,
                                                    geocodeAddressRaw(addr).lon) >> ], 0)
      ELSE IF startsWith(toLowerCase(spec), << "hotel" >>)
        THEN NormalizeHotel(spec, fail)
        ELSE NormalizeArea(spec, fail)

\* the strings normalizePlaceSpec is called with
PlaceInputs ==
  { << "address:", " ", "main" >>,
    << " ", "address:", "rome" >>,
    << "hotel", " ", "near", " ", "Rome" >>,
    << "Hotel", "s", " ", "near", " ", "rome" >>,
    << "hotel", " ", "Rome" >>,
    << "hotel", " ", "near" >>,
    << "hotel", " ", "near", " ", "main" >>,
    << "hotel", " ", "near", " ", "oslo" >>,
    << "hotel", " ", "Near", " ", "Rome" >>,
    << " ", "hotel", " ", "near", " ", "Rome", " " >>,
    << "Rome" >>,
    << "nord" >>,
    << "oslo" >>,
    << "main" >>,
    << >> }

\* the area tables: empty, or Rome, Rome Nord and Oslo
AreaTables ==
  { << >>,
    << AreaRow(1, << "Rome" >>),
       AreaRow(2, << "Rome", " ", "Nord" >>),
       AreaRow(3, << "Oslo" >>) >> }

\* the location_node tables: Rome with a station and two hotels, Rome with a
\* station only; Rome Nord has one hotel, Oslo has no node
NodeTables ==
  { << NodeRow(1, << "Rome", " ", "Termini" >>, "station", 1, Num(41901), Num(12501)),
       NodeRow(2, << "Hotel", " ", "Rome" >>, "poi", 1, Num(41902), Num(12501)),
       NodeRow(3, << "main" >>, "hotel", 1, Num(41903), Num(12501)),
       NodeRow(4, << "Nord" >>, "hotel", 2, Num(41950), Num(12501)) >>,
    << NodeRow(1, << "Rome", " ", "Termini" >>, "station", 1, Num(41901), Num(12501)),
       NodeRow(4, << "Nord" >>, "hotel", 2, Num(41950), Num(12501)) >> }

MaxNormalizeCalls == 2

\* the failures a call can meet
LookupFailures == { "none", "areas", "nodes" }

InitNormalize ==
  /\ adj = AdjacencyOf({})
  /\ originSpec = [ nodes |-> <<>> ]
  /\ destSpec = [ isArea |-> TRUE, nodes |-> <<>> ]
  /\ params = [ x \in {} |-> 0 ]
  /\ now = 0
  /\ startTime = 0
  /\ frontier = <<>>
  /\ dominanceMap = [ x \in {} |-> Num(0) ]
  /\ bestCost = Null
  /\ bestState = <<>>
  /\ expansions = 0
  /\ pc = "idle"
  /\ result = NoResult
  /\ popped = <<>>
  /\ arcLog = <<>>
  /\ generated = <<>>
  /\ CacheUnused
  /\ area \in AreaTables
  /\ location_node \in NodeTables
  /\ edge_leg = <<>>
  /\ offer = <<>>
  /\ normalized = <<>>
  /\ built = <<>>

\* one call of normalizePlaceSpec, from openDb() to the value it settles
\* with; the handle is not closed on any path
normalizePlaceSpec ==
  /\ openHandles < MaxNormalizeCalls
  /\ \E specRaw \in PlaceInputs, fail \in LookupFailures :
       normalized' = << [ specRaw |-> specRaw, outcome |-> Normalize(specRaw, fail) ] >>
  /\ openHandles' = openHandles + 1
  /\ UNCHANGED << apiCache, pendingUpdates, lastCall, putLog, getLog >>
  /\ UNCHANGED << area, location_node, edge_leg, offer, built >>
  /\ UNCHANGED searchVars
  /\ UNCHANGED now

NextNormalize == normalizePlaceSpec

SpecNormalize == InitNormalize /\ [][NextNormalize]_vars

---------------------------------------------------------------------------
(* Place normalization: hotel queries *)

\* the latest call of normalizePlaceSpec resolved
NormalizeResolved ==
  normalized # <<>> /\ normalized[1].outcome.settled = "resolved"

\* the string begins, whatever the case of its letters, with "hotel"
BeginsWithHotel(str) == startsWith(toLowerCase(str), << "hotel" >>)

\* the string holds the word "near" followed by a phrase that some area's
\* name contains
NearPhraseMatchesArea(str) ==
  LET words == split(str)
      nearIndex == indexOf(words, << "near" >>)
  IN  /\ nearIndex # 0 - 1
      /\ nearIndex < Len(words) - 1
      /\ lookupAreaByName(area, join(SubSeq(words, nearIndex + 2, Len(words)))) # <<>>

HasFlag(value, flag) == flag \in DOMAIN value

\* an Address result: isAddress set, exactly one synthetic address node
IsAddressResult(value) ==
  /\ HasFlag(value, "isAddress")
  /\ ~ HasFlag(value, "isHotelQuery")
  /\ ~ HasFlag(value, "isArea")
  /\ Len(value.nodes) = 1
  /\ value.nodes[1].kind = "address"
  /\ ~ HasId(value.nodes[1])

\* C22: on a string that begins with "hotel", normalizePlaceSpec returns a
\* HotelQuery only when a "near <X>" phrase is present and <X> matches an
\* area; with no "near", nothing after "near" or no matching area it returns
\* an Address result (isAddress, one synthetic address node), not a HotelQuery.
C22_HotelFallsBackToAddress ==
  (NormalizeResolved /\ BeginsWithHotel(normalized[1].specRaw)) =>
    IF NearPhraseMatchesArea(normalized[1].specRaw)
      THEN HasFlag(normalized[1].outcome.value, "isHotelQuery")
      ELSE IsAddressResult(normalized[1].outcome.value)

---------------------------------------------------------------------------
(* Place normalization: the variants of the result *)

\* the number of the flags isAddress, isArea, isHotelQuery a result carries
FlagCount(value) ==
  Cardinality({ f \in { "isAddress", "isArea", "isHotelQuery" } : HasFlag(value, f) })

\* an Area result for the string str: the first area of the lookup and all
\* the nodes of that area
IsAreaResultFor(value, str) ==
  /\ HasFlag(value, "isArea")
  /\ value.area = lookupAreaByName(area, str)[1]
  /\ value.nodes = SelectSeq(location_node, LAMBDA n : n.area_id = value.area.id)

\* what the result has to be for a string str that begins with "address:",
\* or with neither "address:" nor "hotel"
VariantFor(call, str) ==
  /\ startsWith(str, << "address:" >>) =>
       /\ call.outcome.settled = "resolved"
       /\ call.outcome.areaLookups = 0
       /\ IsAddressResult(call.outcome.value)
  /\ ( /\ ~ startsWith(str, << "address:" >>)
       /\ ~ BeginsWithHotel(str)
       /\ call.outcome.settled = "resolved" ) =>
       IF lookupAreaByName(area, str) # <<>>
         THEN IsAreaResultFor(call.outcome.value, str)
         ELSE IsAddressResult(call.outcome.value)
  /\ call.outcome.settled = "resolved" => FlagCount(call.outcome.value) = 1

\* C23: read on the string without its leading and trailing white space and
\* for the calls that resolve: a string beginning with "address:" gives an
\* Address result without any area lookup; a string beginning with neither
\* "address:" nor "hotel" gives an Area result with the first area of the
\* lookup and all nodes of that area when the lookup finds an area, and an
\* Address result with one synthetic node otherwise; every result has exactly
\* one of the flags isAddress, isArea, isHotelQuery.
C23_VariantOfTrimmedString ==
  normalized # <<>> => VariantFor(normalized[1], trim(normalized[1].specRaw))

\* a call on "Rome", which two areas match, resolved with an Area result
C23_Witness ==
  /\ NormalizeResolved
  /\ normalized[1].specRaw = << "Rome" >>
  /\ Len(lookupAreaByName(area, << "Rome" >>)) = 2
  /\ HasFlag(normalized[1].outcome.value, "isArea")
  /\ Len(normalized[1].outcome.value.nodes) >= 1

\* C23 as stated, on the input string itself: a string that begins with
\* white space begins with neither "address:" nor "hotel"
C23_VariantOfInputString ==
  normalized # <<>> => VariantFor(normalized[1], normalized[1].specRaw)

---------------------------------------------------------------------------
(* Place normalization: areas without nodes *)

\* C24: when the matched area has no nodes, or the hotel filter leaves no
\* node, normalization reports an error to the caller: no call resolves with
\* a place spec whose node list is empty.
C24_EmptyAreaIsAnError ==
  NormalizeResolved => Len(normalized[1].outcome.value.nodes) > 0

---------------------------------------------------------------------------
(* The ids of synthetic address nodes *)

\* the nodes of the origin spec and of the destination spec
EndpointNodes ==
  { originSpec.nodes[i] : i \in 1..Len(originSpec.nodes) }
    \cup { destSpec.nodes[i] : i \in 1..Len(destSpec.nodes) }

IsSyntheticAddress(n) == "kind" \in DOMAIN n /\ n.kind = "address"

\* C25: once the frontier is seeded, every synthetic address node of the
\* origin spec and of the destination spec has an id, the id is strictly
\* negative and it is the id of no persisted node.
C25_SyntheticIdsNegative ==
  pc = "loop" =>
    \A n \in EndpointNodes :
      IsSyntheticAddress(n) => HasId(n) /\ n.id < 0 /\ n.id \notin NodeIds

---------------------------------------------------------------------------
(* Graph assembly: buildGraph()
   Coordinates are thousandths of a degree, distances metres, prices cents,
   timestamps epoch milliseconds. *)

EarthRadiusKm == 6371
\* R * pi / 180, in metres per degree, with 355 / 113 for pi
EarthMetresPerDegree == (EarthRadiusKm * 355 * 100) \div (113 * 18)
ApproxMetresPerThousandth == 111  \* the factor 111 (km per degree) of addTransferEdges
DefaultRadiusM == 3000            \* radiusKm = 3.0
WalkKmh == 5
WalkMinMinutes == 3
RideshareKmh == 35
RideshareMinMinutes == 5
RideshareBaseFare == 300          \* base_fare 3.00
RidesharePerKm == 125             \* per_km 1.25
RidesharePerMin == 25             \* per_min 0.25
ShuttleKmh == 25
ShuttleFlatPrice == 1200          \* flat_price 12
CoLocatedM == 300                 \* distanceKm < 0.3

\* Math.round(n / d) for n >= 0, d > 0
RoundDiv(n, d) == (2 * n + d) \div (2 * d)

Abs(n) == IF n < 0 THEN 0 - n ELSE n
Max(a, b) == IF a >= b THEN a ELSE b

\* haversine(lat1, lon1, lat2, lon2), in metres, for two points of one
\* meridian: the great-circle distance is R times the difference of the
\* latitudes. NaN as soon as a coordinate is not a number.
haversine(lat1, lon1, lat2, lon2) ==
  IF IsNum(lat1) /\ IsNum(lon1) /\ IsNum(lat2) /\ IsNum(lon2)
    THEN Num((EarthMetresPerDegree * Abs(lat2.v - lat1.v)) \div 1000)
    ELSE NaN

\* Math.round((distanceKm / kmh) * 60)
TravelMinutes(dist, kmh) ==
  IF IsNum(dist) THEN Num(RoundDiv(dist.v * MinutesPerHour, kmh * 1000)) ELSE NaN

\* Math.max(floor, x): NaN as soon as x is NaN
JsMax(floor, x) == IF IsNum(x) THEN Num(Max(floor, x.v)) ELSE NaN

\* new Date(now.getTime() + durationMin * 60000).toISOString() throws a
\* RangeError on an invalid date
ArrivalThrows(durationMin) == ~ IsNum(durationMin)

\* one synthesized transfer {edge_leg, offer}; pair is a history tag naming
\* the nodes it was generated for (the code writes no node id on it)
Transfer(a, b, mode, dist, durationMin, price, structure, static, t) ==
  [ edge_leg |-> [ mode |-> mode, is_transfer |-> 1, distance_km |-> dist,
                   duration_min |-> durationMin,
                   co_located |-> IF JsLt(dist, Num(CoLocatedM)) THEN 1 ELSE 0,
                   structure_type |-> structure ],
    offer |-> [ departure_time_utc |-> t,
                arrival_time_utc |-> t + durationMin.v * MsPerMinute,
                price_total |-> price,
                is_static |-> static ],
    pair |-> << a.id, b.id >> ]

\* const durationMin = Math.round((distanceKm / opts.avg_speed_kmh) * 60)
ShuttleMinutes(dist) == TravelMinutes(dist, ShuttleKmh)

generateWalkTransfer(a, b, t) ==
  LET dist == haversine(a.lat, a.lon, b.lat, b.lon)
      durationMin == JsMax(WalkMinMinutes, TravelMinutes(dist, WalkKmh))
  IN  Transfer(a, b, "walk", dist, durationMin, 0, "static", 1, t)

generateRideshareTransfer(a, b, t) ==
  LET dist == haversine(a.lat, a.lon, b.lat, b.lon)
      durationMin == JsMax(RideshareMinMinutes, TravelMinutes(dist, RideshareKmh))
      price == RideshareBaseFare + RoundDiv(RidesharePerKm * dist.v, 1000)
                 + RidesharePerMin * durationMin.v
  IN  Transfer(a, b, "rideshare", dist, durationMin, price, "dynamic_template", 0, t)

generateShuttleTransfer(a, b, t) ==
  LET dist == haversine(a.lat, a.lon, b.lat, b.lon)
      durationMin == ShuttleMinutes(dist)
  IN  Transfer(a, b, "shuttle", dist, durationMin, ShuttleFlatPrice, "static", 1, t)

\* a transfer generator throws for the pair: its duration is NaN
GeneratorThrows(a, b) == ArrivalThrows(TravelMinutes(haversine(a.lat, a.lon, b.lat, b.lon), WalkKmh))

\* distApprox > radiusKm, with distApprox = sqrt(dx * dx + dy * dy) * 111;
\* false as soon as a coordinate is NaN
BeyondRadius(a, b, radiusM) ==
  LET dx == JsSub(a.lat, b.lat)
      dy == JsSub(a.lon, b.lon)
  IN  /\ IsNum(dx) /\ IsNum(dy)
      /\ (dx.v * dx.v + dy.v * dy.v) * ApproxMetresPerThousandth * ApproxMetresPerThousandth
           > radiusM * radiusM

\* the rows of edge_leg and offer, with the columns of the migration
EdgeRow(id, from, to, mode, isTransfer, durationMin) ==
  [ id |-> id, from_node_id |-> from, to_node_id |-> to, mode |-> mode,
    is_transfer |-> isTransfer, duration_min |-> durationMin ]
OfferRow(id, edgeId, depMin, durMin, price) ==
  [ id |-> id, edge_leg_id |-> edgeId,
    departure_time_utc |-> depMin * MsPerMinute,
    arrival_time_utc |-> (depMin + durMin) * MsPerMinute,
    price_total |-> price ]

\* offersByEdge[e.id] || []
OffersOfEdge(e, offers) == SelectSeq(offers, LAMBDA o : o.edge_leg_id = e.id)

\* the key adj is indexed with for an edge: e.origin_node_id
AdjacencyKey(e) == Prop(e, "origin_node_id")

\* adj[e.origin_node_id].push(...) throws a TypeError: the edge has an offer
\* and adj has no list under the key
buildAdjacencyThrows(nodes, edges, offers) ==
  \E i \in 1..Len(edges) :
    /\ OffersOfEdge(edges[i], offers) # <<>>
    /\ ~ ( IsNum(AdjacencyKey(edges[i]))
           /\ \E j \in 1..Len(nodes) : nodes[j].id = AdjacencyKey(edges[i]).v )

RECURSIVE StructuralArcs(_, _, _, _)
\* the arcs pushed under the key id, edge by edge from index i on
StructuralArcs(id, edges, offers, i) ==
  IF i > Len(edges) THEN <<>>
  ELSE (IF AdjacencyKey(edges[i]) = Num(id)
          THEN [ k \in 1..Len(OffersOfEdge(edges[i], offers)) |->
                   [ edge_leg |-> edges[i],
                     offer |-> OffersOfEdge(edges[i], offers)[k] ] ]
          ELSE <<>>)
         \o StructuralArcs(id, edges, offers, i + 1)

\* buildAdjacency(nodes, edges, offers), when it does not throw
buildAdjacency(nodes, edges, offers) ==
  [ id \in { nodes[j].id : j \in 1..Len(nodes) } |->
      StructuralArcs(id, edges, offers, 1) ]

\* addTransferEdges throws: some pair passes the radius test and its
\* generator throws
addTransferEdgesThrows(nodes, radiusM) ==
  \E i, j \in 1..Len(nodes) :
    /\ nodes[i].id # nodes[j].id
    /\ ~ BeyondRadius(nodes[i], nodes[j], radiusM)
    /\ GeneratorThrows(nodes[i], nodes[j])

RECURSIVE TransfersFrom(_, _, _, _, _)
\* the transfers pushed onto adj[a.id], b by b from index j on
TransfersFrom(a, nodes, radiusM, t, j) ==
  IF j > Len(nodes) THEN <<>>
  ELSE (IF a.id = nodes[j].id \/ BeyondRadius(a, nodes[j], radiusM)
          THEN <<>>
          ELSE << generateWalkTransfer(a, nodes[j], t),
                  generateRideshareTransfer(a, nodes[j], t),
                  generateShuttleTransfer(a, nodes[j], t) >>)
         \o TransfersFrom(a, nodes, radiusM, t, j + 1)

\* addTransferEdges(nodes, adj, radiusKm), when it does not throw
addTransferEdges(nodes, adjacency, radiusM, t) ==
  [ id \in DOMAIN adjacency |->
      adjacency[id]
        \o TransfersFrom(nodes[CHOOSE j \in 1..Len(nodes) : nodes[j].id = id],
                         nodes, radiusM, t, 1) ]

\* addTransferEdges(nodes, adj): no third argument, so the default
RadiusArgument == DefaultRadiusM

\* the location_node tables: node 1 with a second node at the same place,
\* 111 m, 3002 m or 5004 m to the north, and a third node 5 km away or with
\* a latitude that is not a number
GraphNode(id, lat) == NodeRow(id, << "main" >>, "station", 1, lat, Num(12501))

GraphNodeTables ==
  { << GraphNode(1, Num(41900)), GraphNode(2, Num(41900)) >>,
    << GraphNode(1, Num(41900)), GraphNode(2, Num(41901)) >>,
    << GraphNode(1, Num(41900)), GraphNode(2, Num(41927)), GraphNode(3, Num(41945)) >>,
    << GraphNode(1, Num(41900)), GraphNode(2, Num(41945)) >>,
    << GraphNode(1, Num(41900)), GraphNode(2, Num(41901)), GraphNode(3, NaN) >> }

\* the edge_leg tables: no edge, an edge 1 -> 2, edges 1 -> 2 and 2 -> 1
EdgeTables ==
  { << >>,
    << EdgeRow(1, 1, 2, "bus", 0, 30) >>,
    << EdgeRow(1, 1, 2, "bus", 0, 30), EdgeRow(2, 2, 1, "train", 0, 20) >> }

\* the offer tables: no offer, an offer of an edge that does not exist, one
\* and two offers of edge 1
OfferTables ==
  { << >>,
    << OfferRow(3, 9, 480, 30, 25) >>,
    << OfferRow(1, 1, 480, 30, 25) >>,
    << OfferRow(1, 1, 480, 30, 25), OfferRow(2, 1, 540, 30, 20),
       OfferRow(3, 9, 480, 30, 25) >> }

\* the params the caller will search with: transferRadiusKm left to its
\* default, or 1 km, or 10 km
RadiusParamChoices ==
  { [ x \in {} |-> 0 ], [ transferRadiusKm |-> 1 ], [ transferRadiusKm |-> 10 ] }

LoadStages == << "loadNodes", "loadStructuralEdges", "loadOffers" >>

StageIndex(stage) == CHOOSE i \in 1..Len(LoadStages) : LoadStages[i] = stage

\* the table a load function selects from
TableOf(stage) ==
  CASE stage = "loadNodes" -> location_node
    [] stage = "loadStructuralEdges" -> edge_leg
    [] stage = "loadOffers" -> offer

NoAdjacency == [ id \in {} |-> <<>> ]

\* buildGraph in progress: the load function it awaits; nodes, edges, offers
\* as far as loaded
Building(stage, nodes, edges, offers) ==
  [ stage |-> stage, nodes |-> nodes, edges |-> edges, offers |-> offers,
    adj |-> NoAdjacency, error |-> "" ]

InitGraph ==
  /\ adj = AdjacencyOf({})
  /\ originSpec = [ nodes |-> <<>> ]
  /\ destSpec = [ isArea |-> TRUE, nodes |-> <<>> ]
  /\ params \in RadiusParamChoices
  /\ now = 0
  /\ startTime = 0
  /\ frontier = <<>>
  /\ dominanceMap = [ x \in {} |-> Num(0) ]
  /\ bestCost = Null
  /\ bestState = <<>>
  /\ expansions = 0
  /\ pc = "idle"
  /\ result = NoResult
  /\ popped = <<>>
  /\ arcLog = <<>>
  /\ generated = <<>>
  /\ CacheUnused
  /\ area = <<>>
  /\ location_node \in GraphNodeTables
  /\ edge_leg \in EdgeTables
  /\ offer \in OfferTables
  /\ normalized = <<>>
  /\ built = <<>>

\* buildGraph() is called: loadNodes opens a handle and issues its query
buildGraph ==
  /\ built = <<>>
  /\ built' = << Building("loadNodes", <<>>, <<>>, <<>>) >>
  /\ openHandles' = openHandles + 1
  /\ UNCHANGED << apiCache, pendingUpdates, lastCall, putLog, getLog >>
  /\ UNCHANGED << area, location_node, edge_leg, offer, normalized >>
  /\ UNCHANGED searchVars
  /\ UNCHANGED now

\* the callback of db.all in loadNodes, loadStructuralEdges or loadOffers:
\* db.close(), then reject(err), or resolve(rows) and buildGraph goes on to
\* the next load function, which opens its own handle
LoadCallback ==
  /\ built # <<>>
  /\ built[1].stage \in { LoadStages[i] : i \in 1..Len(LoadStages) }
  /\ \E err \in BOOLEAN :
       LET b == built[1]
           rows == TableOf(b.stage)
           loaded == CASE b.stage = "loadNodes" -> [ b EXCEPT !.nodes = rows ]
                       [] b.stage = "loadStructuralEdges" -> [ b EXCEPT !.edges = rows ]
                       [] b.stage = "loadOffers" -> [ b EXCEPT !.offers = rows ]
           last == StageIndex(b.stage) = Len(LoadStages)
       IN  IF err
             THEN /\ built' = << [ b EXCEPT !.stage = "rejected",
                                            !.error = "SQLITE_ERROR" ] >>
                  /\ openHandles' = openHandles - 1
             ELSE IF last
               THEN /\ built' = << [ loaded EXCEPT !.stage = "assemble" ] >>
                    /\ openHandles' = openHandles - 1
               ELSE /\ built' = << [ loaded EXCEPT
                                       !.stage = LoadStages[StageIndex(b.stage) + 1] ] >>
                    /\ openHandles' = openHandles
  /\ UNCHANGED << apiCache, pendingUpdates, lastCall, putLog, getLog >>
  /\ UNCHANGED << area, location_node, edge_leg, offer, normalized >>
  /\ UNCHANGED searchVars
  /\ UNCHANGED now

\* the rest of buildGraph: buildAdjacency, addTransferEdges, return; an
\* exception thrown by either rejects the promise of buildGraph
AssembleGraph ==
  /\ built # <<>>
  /\ built[1].stage = "assemble"
  /\ LET b == built[1]
     IN  IF buildAdjacencyThrows(b.nodes, b.edges, b.offers)
           THEN built' = << [ b EXCEPT !.stage = "rejected", !.error = "TypeError" ] >>
         ELSE IF addTransferEdgesThrows(b.nodes, RadiusArgument)
           THEN built' = << [ b EXCEPT !.stage = "rejected", !.error = "RangeError" ] >>
         ELSE built' = << [ b EXCEPT
                 !.stage = "resolved",
                 !.adj = addTransferEdges(b.nodes,
                           buildAdjacency(b.nodes, b.edges, b.offers),
                           RadiusArgument, now) ] >>
  /\ UNCHANGED cacheVars
  /\ UNCHANGED << area, location_node, edge_leg, offer, normalized >>
  /\ UNCHANGED searchVars
  /\ UNCHANGED now

NextGraph == buildGraph \/ LoadCallback \/ AssembleGraph

SpecGraph == InitGraph /\ [][NextGraph]_vars

---------------------------------------------------------------------------
(* Graph assembly: the transfers of the graph *)

\* buildGraph has returned {nodes, adj}
GraphBuilt == built # <<>> /\ built[1].stage = "resolved"

IsSynthesized(arc) == "pair" \in DOMAIN arc

\* the synthesized arcs of adj[a.id] generated for the pair (a, b)
TransfersOfPair(a, b) ==
  SelectSeq(built[1].adj[a.id],
            LAMBDA arc : IsSynthesized(arc) /\ arc.pair = << a.id, b.id >>)

\* the transfer radius of the search, in metres
TransferRadiusM == Param(params, "transferRadiusKm", 3) * 1000

\* C26: after buildGraph, for every ordered pair of distinct nodes (a, b):
\* if their distance is at most the transfer radius of the search (default
\* 3 km), adj[a] holds exactly three synthesized arcs for the pair, a walk, a
\* rideshare and a shuttle, each with is_transfer = 1; if it is greater,
\* adj[a] holds none; no node has a synthesized arc to itself.
C26_TransfersWithinRadius ==
  GraphBuilt =>
    \A i, j \in 1..Len(built[1].nodes) :
      LET a == built[1].nodes[i]
          b == built[1].nodes[j]
          arcs == TransfersOfPair(a, b)
      IN  IF i = j THEN arcs = <<>>
          ELSE IF JsLe(haversine(a.lat, a.lon, b.lat, b.lon), Num(TransferRadiusM))
            THEN /\ Len(arcs) = 3
                 /\ { arcs[k].edge_leg.mode : k \in 1..3 } = { "walk", "rideshare", "shuttle" }
                 /\ \A k \in 1..3 : arcs[k].edge_leg.is_transfer = 1
            ELSE arcs = <<>>

---------------------------------------------------------------------------
(* Graph assembly: the arcs of the persisted edges *)

\* the three tables were loaded and buildAdjacency has run
AdjacencyAttempted ==
  /\ built # <<>>
  /\ built[1].stage \in { "resolved", "rejected" }
  /\ built[1].error \notin { "SQLITE_ERROR", "RangeError" }

\* how often the arc (e, o) occurs in the adjacency entry of node id
ArcCount(id, e, o) ==
  Cardinality({ k \in 1..Len(built[1].adj[id]) :
                  built[1].adj[id][k] = [ edge_leg |-> e, offer |-> o ] })

\* C27: buildAdjacency completes for every edge and offer table of the
\* persisted schema; for every edge e from u to v and every offer o of e the
\* arc (e, o) is exactly once in the entry of u and in no other entry; every
\* other arc of the adjacency is a synthesized transfer, so an edge without
\* offers and an offer without edge contribute nothing.
C27_OneArcPerEdgeOffer ==
  AdjacencyAttempted =>
    /\ built[1].stage = "resolved"
    /\ \A i \in 1..Len(built[1].edges), j \in 1..Len(built[1].offers) :
         LET e == built[1].edges[i]
             o == built[1].offers[j]
         IN  o.edge_leg_id = e.id =>
               \A id \in DOMAIN built[1].adj :
                 ArcCount(id, e, o) = (IF id = e.from_node_id THEN 1 ELSE 0)
    /\ \A id \in DOMAIN built[1].adj : \A k \in 1..Len(built[1].adj[id]) :
         LET arc == built[1].adj[id][k]
         IN  IsSynthesized(arc) \/
               ( /\ \E i \in 1..Len(built[1].edges) : built[1].edges[i] = arc.edge_leg
                 /\ \E j \in 1..Len(built[1].offers) : built[1].offers[j] = arc.offer
                 /\ arc.offer.edge_leg_id = arc.edge_leg.id )

---------------------------------------------------------------------------
(* Graph assembly: the offers of synthesized transfers *)

\* C28: every offer synthesized by generateWalkTransfer,
\* generateRideshareTransfer and generateShuttleTransfer arrives strictly
\* after it departs and has a price of at least 0, for every pair of distinct
\* nodes within the radius, pairs at the same or nearly the same coordinates
\* included.
C28_SynthesizedOffersValid ==
  GraphBuilt =>
    \A id \in DOMAIN built[1].adj : \A k \in 1..Len(built[1].adj[id]) :
      LET arc == built[1].adj[id][k]
      IN  IsSynthesized(arc) =>
            /\ arc.offer.arrival_time_utc > arc.offer.departure_time_utc
            /\ arc.offer.price_total >= 0

---------------------------------------------------------------------------
(* Graph assembly: failures of transfer synthesis *)

\* the three tables were loaded, buildAdjacency returned and
\* addTransferEdges has run
TransfersAttempted ==
  /\ built # <<>>
  /\ built[1].stage \in { "resolved", "rejected" }
  /\ built[1].error \notin { "SQLITE_ERROR", "TypeError" }

\* C29: a failure while synthesizing the transfers of a pair of nodes, such
\* as a coordinate that is not a number, is not fatal: buildGraph completes,
\* the adjacency holds no transfer arc for that pair and the transfer arcs of
\* every other pair are what they are without the failure.
C29_SynthesisFailureSkipsPair ==
  TransfersAttempted =>
    /\ built[1].stage = "resolved"
    /\ \A i, j \in 1..Len(built[1].nodes) :
         LET a == built[1].nodes[i]
             b == built[1].nodes[j]
         IN  i # j =>
               TransfersOfPair(a, b) =
                 IF GeneratorThrows(a, b) \/ BeyondRadius(a, b, RadiusArgument)
                   THEN <<>>
                   ELSE << generateWalkTransfer(a, b, now),
                           generateRideshareTransfer(a, b, now),
                           generateShuttleTransfer(a, b, now) >>

---------------------------------------------------------------------------
(* Persistence handles *)

\* buildGraph awaits the callback of a load function
LoadInProgress ==
  built # <<>> /\ built[1].stage \in { LoadStages[i] : i \in 1..Len(LoadStages) }

\* C30: every handle an operation opens (loadNodes, loadStructuralEdges,
\* loadOffers, normalizePlaceSpec, apiCacheGet, apiCachePut) is closed by
\* that operation on every path: while no operation is in progress no handle
\* is open.
C30_HandlesClosed ==
  ~ LoadInProgress => openHandles = 0

---------------------------------------------------------------------------
(* The dominance table (checked under SpecDominance) *)

\* the successor states generated so far whose dominance key is key
GeneratedWithKey(key) ==
  { i \in 1..Len(generated) : KeyOf(generated[i].state) = key }

\* the rule of the table, on the successor states generated so far
DominanceTableRule ==
  /\ \A j \in 1..Len(generated) :
       /\ generated[j].dropped <=>
            \E i \in 1..(j - 1) : SameKey(i, j) /\ JsLe(CostOf(i), CostOf(j))
       /\ ~ generated[j].dropped =>
            \/ \E k \in 1..Len(frontier) : frontier[k] = generated[j].state
            \/ WasPopped(generated[j].state)
  /\ DOMAIN dominanceMap = { KeyOf(generated[i].state) : i \in 1..Len(generated) }
  /\ \A key \in DOMAIN dominanceMap :
       /\ \E i \in GeneratedWithKey(key) : CostOf(i) = dominanceMap[key]
       /\ \A i \in GeneratedWithKey(key) : JsLe(dominanceMap[key], CostOf(i))

\* a step keeps every key of the table and does not raise its value
TableNeverIncreases ==
  \A key \in DOMAIN dominanceMap :
    key \in DOMAIN dominanceMap' /\ JsLe(dominanceMap'[key], dominanceMap[key])

---------------------------------------------------------------------------
(* The order of expansion (checked under SpecDominance) *)

\* the place of a pushed state in the order of insertion
InsertionIndex(st) ==
  CHOOSE i \in 1..Len(generated) :
    generated[i].state = st /\ ~ generated[i].dropped

\* a step that pops a state pops one of the cheapest of the frontier and,
\* among those, the one inserted first
PopsCheapestInsertedFirst ==
  Len(popped') = Len(popped) + 1 =>
    LET st == popped'[Len(popped')]
    IN  /\ \E k \in 1..Len(frontier) : frontier[k] = st
        /\ \A k \in 1..Len(frontier) :
             /\ JsLe(st.genCost, frontier[k].genCost)
             /\ frontier[k].genCost = st.genCost =>
                  InsertionIndex(st) <= InsertionIndex(frontier[k])

\* C32: at every pop the state removed from the frontier has the minimum
\* genCost of the states then in the frontier, and among states of equal
\* genCost the one inserted earliest is removed first.
C32_PopsCheapestInsertedFirst == [][PopsCheapestInsertedFirst]_vars

\* three states were pushed, the first the dearest, the other two of equal
\* cost; the second was popped first, then the third
C32_Witness ==
  /\ Len(generated) = 3
  /\ \A i \in 1..3 : ~ generated[i].dropped
  /\ JsGt(CostOf(1), CostOf(2))
  /\ CostOf(2) = CostOf(3)
  /\ Len(popped) = 2
  /\ popped[1] = generated[2].state
  /\ popped[2] = generated[3].state

---------------------------------------------------------------------------
(* SpecPrune: the for loop over the outgoing legs with a best cost known.   *)
(* Lines 359-389 (adj lookup, shouldPrune, computeLegGeneralizedCost,       *)
(* createState, isDominated, frontier.push) applied to a state of the       *)
(* frontier while bestCost holds the cost of a destination state found      *)
(* before.                                                                  *)

\* the costs of the destination state found before
BestCostChoices == { Num(0), Num(LegCostOf(ArcUniverse[1])) }

InitPrune ==
  /\ \E chosen \in SUBSET (1..Len(ArcUniverse)) : adj = AdjacencyOf(chosen)
  /\ \E ids \in { <<1>>, <<3>>, <<1, 3>> } :
       originSpec = [ nodes |-> [ i \in 1..Len(ids) |-> SpecNode(ids[i]) ] ]
  /\ destSpec = [ isArea |-> TRUE, nodes |-> <<SpecNode(2)>> ]
  /\ params = [ x \in {} |-> 0 ]
  /\ now = 0
  /\ startTime = 0
  /\ frontier = Seeds(originSpec.nodes, 0)
  /\ dominanceMap = [ x \in {} |-> Num(0) ]
  /\ bestCost \in BestCostChoices
  /\ bestState = << createState(2, 0, bestCost, Num(0), <<>>) >>
  /\ expansions = 0
  /\ pc = "loop"
  /\ result = NoResult
  /\ popped = <<>>
  /\ arcLog = <<>>
  /\ generated = <<>>
  /\ CacheUnused
  /\ StoreUnused

\* lines 359-389 for one state of the frontier: all its outgoing legs
HandleOutgoing ==
  /\ pc = "loop"
  /\ \E i \in 1..Len(frontier) :
       LET state == frontier[i]
           rest == [ j \in 1..(Len(frontier) - 1) |->
                       IF j < i THEN frontier[j] ELSE frontier[j + 1] ]
           outgoing == Outgoing(adj, state.nodeId)
           done == ProcessLegs(state, outgoing, 1,
                     [ frontier |-> rest, dom |-> dominanceMap, log |-> arcLog,
                       gen |-> generated, threw |-> FALSE ])
       IN /\ popped' = Append(popped, state)
          /\ frontier' = done.frontier
          /\ dominanceMap' = done.dom
          /\ arcLog' = done.log
          /\ generated' = done.gen
          /\ pc' = IF done.threw THEN "threw" ELSE pc
  /\ UNCHANGED << adj, originSpec, destSpec, params, bestCost, bestState,
                  expansions, startTime, now, result >>
  /\ UNCHANGED cacheVars
  /\ UNCHANGED storeVars

NextPrune == HandleOutgoing

SpecPrune == InitPrune /\ [][NextPrune]_vars

\* the generalized cost of the path a handled arc completes
NewGenCostOf(entry) == PathCostOf(Append(entry.from.path, entry.leg))

\* rule 1 or rule 2 of the pruning rules excludes the arc of a history entry
ExcludedByBound(entry) ==
  /\ bestCost # Null
  /\ \/ JsGe(Num(NewGenCostOf(entry)), bestCost)
     \/ JsGe(JsAdd(Num(NewGenCostOf(entry)),
                   LowerBoundUsed(entry.leg.edge_leg.destination_node_id)),
             bestCost)

---------------------------------------------------------------------------
(* SpecStoredRow: the cache calls of a process that starts on a table       *)
(* holding one row, stored at time 0 by an apiCachePut of an earlier        *)
(* process (the table is a file, Data/first_run.db).                        *)

\* the row apiCachePut(provider, endpoint, p, response, ttlHours) inserts at
\* time t as the first row of the table
StoredRow(provider, endpoint, p, response, ttlHours, t) ==
  [ id |-> 1, provider |-> provider, endpoint |-> endpoint,
    canonical_params_hash |-> canonicalHash(p),
    canonical_params_json |-> JsonStringify(p),
    response_body_json |-> JsonStringify(response),
    created_at_utc |-> ToISOString(t),
    expires_at_utc |-> ToISOString(t + ttlHours * MsPerHour),
    last_used_at_utc |-> ToISOString(t),
    hit_count |-> 0 ]

\* the params of the stored row: one object with its keys in either order
StoredParams ==
  { JObj(<< <<"a", JNum(1)>>, <<"b", JNum(2)>> >>),
    JObj(<< <<"b", JNum(2)>>, <<"a", JNum(1)>> >>) }

InitStoredRow ==
  /\ adj = AdjacencyOf({})
  /\ originSpec = [ nodes |-> <<>> ]
  /\ destSpec = [ isArea |-> TRUE, nodes |-> <<>> ]
  /\ params = [ x \in {} |-> 0 ]
  /\ now = 0
  /\ startTime = 0
  /\ frontier = <<>>
  /\ dominanceMap = [ x \in {} |-> Num(0) ]
  /\ bestCost = Null
  /\ bestState = <<>>
  /\ expansions = 0
  /\ pc = "idle"
  /\ result = NoResult
  /\ popped = <<>>
  /\ arcLog = <<>>
  /\ generated = <<>>
  /\ \E provider \in Providers, endpoint \in Endpoints, p \in StoredParams :
       apiCache = << StoredRow(provider, endpoint, p, JStr("r0"), 1, 0) >>
  /\ pendingUpdates = <<>>
  /\ openHandles = 0
  /\ lastCall = <<>>
  /\ putLog = <<>>
  /\ getLog = <<>>
  /\ StoreUnused

SpecStoredRow == InitStoredRow /\ [][NextCache]_vars

---------------------------------------------------------------------------
(* Claims about the hit counter of a cache row *)

\* the apiCacheGet calls so far that found the row with this id
GetsThatFound(id) == { g \in 1..Len(getLog) : getLog[g].id = id }

\* every UPDATE statement issued has been applied
UpdatesApplied == pendingUpdates = <<>>

HitCountIsGetCount ==
  UpdatesApplied =>
    \A i \in 1..Len(apiCache) :
      apiCache[i].hit_count = Cardinality(GetsThatFound(apiCache[i].id))

HitCountNeverDecreases ==
  \A i \in 1..Len(apiCache) :
    /\ i <= Len(apiCache')
    /\ apiCache'[i].id = apiCache[i].id
    /\ apiCache'[i].hit_count >= apiCache[i].hit_count

\* C34: under any interleaving of apiCacheGet and apiCachePut calls on one
\* cache key, the row's hit_count never decreases, and once all issued updates
\* have been applied it equals the number of apiCacheGet calls that found the
\* row, whether the row was still valid or already expired when found.
C34_HitCountCountsGets ==
  [] HitCountIsGetCount /\ [][HitCountNeverDecreases]_vars

\* a row was found by a get while valid and by a get after it had expired,
\* and the updates of both gets are applied
C34_Witness ==
  /\ UpdatesApplied
  /\ \E i \in 1..Len(apiCache) :
       /\ apiCache[i].hit_count = 2
       /\ \E g, h \in GetsThatFound(apiCache[i].id) :
            getLog[g].valid /\ ~ getLog[h].valid

---------------------------------------------------------------------------
(* SpecFollow: buildGraph, then searchItinerariesDoorToDoor on the graph it *)
(* returned, as far as the seeding loop and lines 359-361 and 370-388       *)
(* (adj lookup, computeLegGeneralizedCost, createState, isDominated,        *)
(* frontier.push) for a state of the frontier and one of its outgoing arcs, *)
(* without the shouldPrune call that precedes them.                         *)

\* lines 244-286: the search is called with the graph buildGraph resolved
\* with and one of its nodes as the origin; the seeding loop pushes the seed
SeedFromGraph ==
  /\ built # <<>>
  /\ built[1].stage = "resolved"
  /\ pc = "idle"
  /\ \E o \in 1..Len(built[1].nodes), d \in 1..Len(built[1].nodes) :
       /\ o # d
       /\ originSpec' = [ nodes |-> << [ id |-> built[1].nodes[o].id ] >> ]
       /\ destSpec' = [ isArea |-> TRUE,
                        nodes |-> << [ id |-> built[1].nodes[d].id ] >> ]
       /\ frontier' = Seeds(originSpec'.nodes, now)
  /\ adj' = built[1].adj
  /\ startTime' = now
  /\ pc' = "loop"
  /\ UNCHANGED << params, dominanceMap, bestCost, bestState, expansions, now,
                  result, popped, arcLog, generated >>
  /\ UNCHANGED cacheVars
  /\ UNCHANGED storeVars

\* adj[state.nodeId] || [] where the node id of a successor state is a
\* JavaScript value
OutgoingOf(state) ==
  IF state.path = <<>> THEN Outgoing(adj, state.nodeId)
  ELSE IF IsNum(state.nodeId) THEN Outgoing(adj, state.nodeId.v)
  ELSE <<>>

\* lines 359-361 and 370-388 for one state and one arc of adj[state.nodeId]
FollowArc ==
  /\ pc = "loop"
  /\ Len(generated) < MaxSuccessors
  /\ \E i \in 1..Len(frontier) :
       LET state == frontier[i]
           outgoing == OutgoingOf(state)
       IN \E l \in 1..Len(outgoing) :
            LET leg == outgoing[l]
                c == computeLegGeneralizedCost(state, leg, params)
                newState == createState(Prop(leg.edge_leg, "destination_node_id"),
                                        leg.offer.arrival_time_utc,
                                        c.newGenCost, c.newTransfers,
                                        Append(state.path, leg))
                d == isDominated(newState, dominanceMap)
            IN /\ dominanceMap' = d.map
               /\ frontier' = IF d.dominated THEN frontier
                              ELSE Append(frontier, newState)
               /\ generated' = Append(generated, [ state |-> newState,
                                                   dropped |-> d.dominated,
                                                   from |-> state ])
  /\ UNCHANGED << adj, originSpec, destSpec, params, bestCost, bestState,
                  expansions, startTime, now, pc, result, popped, arcLog >>
  /\ UNCHANGED cacheVars
  /\ UNCHANGED storeVars

NextFollow ==
  \/ buildGraph
  \/ LoadCallback
  \/ AssembleGraph
  \/ SeedFromGraph
  \/ FollowArc

SpecFollow == InitGraph /\ [][NextFollow]_vars

\* the node an arc of the adjacency leads to: b for a transfer synthesized
\* from a to b, to_node_id for a persisted edge
ArcDestination(arc) ==
  IF IsSynthesized(arc) THEN arc.pair[2] ELSE arc.edge_leg.to_node_id

LoadedNodeIds == { location_node[i].id : i \in 1..Len(location_node) }

---------------------------------------------------------------------------
(* SpecTimed: successor creation (lines 370-388, as in SpecSuccessor) with  *)
(* the search started at 00:00 or at 10:00, after the departures of the     *)
(* offers.                                                                  *)

\* Date.now() when the search is called, in minutes
StartMinuteChoices == { 0, 600 }

InitTimed ==
  /\ \E chosen \in SUBSET (1..Len(ArcUniverse)) : adj = AdjacencyOf(chosen)
  /\ \E ids \in { <<1>>, <<3>>, <<1, 3>> } :
       originSpec = [ nodes |-> [ i \in 1..Len(ids) |-> SpecNode(ids[i]) ] ]
  /\ destSpec = [ isArea |-> TRUE, nodes |-> <<SpecNode(2)>> ]
  /\ params = [ x \in {} |-> 0 ]
  /\ \E m \in StartMinuteChoices : now = m * MsPerMinute
  /\ startTime = now
  /\ frontier = Seeds(originSpec.nodes, now)
  /\ dominanceMap = [ x \in {} |-> Num(0) ]
  /\ bestCost = Null
  /\ bestState = <<>>
  /\ expansions = 0
  /\ pc = "loop"
  /\ result = NoResult
  /\ popped = <<>>
  /\ arcLog = <<>>
  /\ generated = <<>>
  /\ CacheUnused
  /\ StoreUnused

SpecTimed == InitTimed /\ [][NextSuccessor]_vars

\* offer.is_static is not 1
NonStatic(leg) == ~ ("is_static" \in DOMAIN leg.offer /\ leg.offer.is_static = 1)

---------------------------------------------------------------------------
(* Claims about the number of states popped *)

\* C38: in every run of searchItinerariesDoorToDoor the number of states
\* popped from the frontier, and so the expansions count in the result, never
\* exceeds maxExpansions.
C38_PopsWithinBudget ==
  /\ Len(popped) <= maxExpansions
  /\ expansions <= maxExpansions
  /\ pc = "returned" => result.expansions <= maxExpansions

---------------------------------------------------------------------------
(* Claims about refreshing a cache entry *)

\* the latest call was an apiCachePut, the store itself did not fail, and a
\* row with the key of the call had expired when the call was made
PutOnExpiredEntry ==
  /\ lastCall # <<>>
  /\ lastCall[1].op = "put"
  /\ ~ lastCall[1].storeError
  /\ \E i \in 1..Len(apiCache) :
       /\ apiCache[i].provider = lastCall[1].provider
       /\ apiCache[i].endpoint = lastCall[1].endpoint
       /\ apiCache[i].canonical_params_hash = lastCall[1].hash
       /\ ~ IsValid(apiCache[i], lastCall[1].at)

\* C39: an expired cache entry can be refreshed. After the entry for
\* (provider, endpoint, params) has expired, an apiCachePut with the same
\* provider, endpoint and params succeeds, and the row an apiCacheGet for the
\* key finds then holds the newly stored response with the new expiry, so a
\* get before the new expiry returns the new response.
C39_ExpiredEntryRefreshed ==
  PutOnExpiredEntry =>
    LET put == lastCall[1]
        found == apiCache[RowIndex(put.provider, put.endpoint, put.hash)]
    IN  /\ lastCall[2].settled = "resolved"
        /\ found.response_body_json = JsonStringify(put.response)
        /\ DateParse(found.expires_at_utc) = put.at + put.ttlHours * MsPerHour

---------------------------------------------------------------------------
(* SpecCycle: the main loop on a graph with a cycle and zero-cost arcs.     *)
(* Lines 309-312 (sort, shift, expansions++) and 359-389 without the        *)
(* shouldPrune call: the cheapest state is popped and a successor is        *)
(* created for each of its outgoing legs. No node is a destination and no   *)
(* budget is breached.                                                      *)

\* arcs between A and B, both ways: two of cost zero (price 0, no duration,
\* riskPenalty 0 by default) and two trains
CycleArcs ==
  << Leg(6, 1, 2, "bus", 0, 480, 0, 0),
     Leg(7, 2, 1, "bus", 0, 480, 0, 0),
     Leg(8, 1, 2, "train", 0, 480, 30, 5),
     Leg(9, 2, 1, "train", 0, 510, 30, 5) >>

CycleAdjacency(chosen) ==
  [ n \in {1, 2} |->
      SelectSeq(CycleArcs,
                LAMBDA a : a.edge_leg.id \in chosen /\ a.edge_leg.origin_node_id = n) ]

InitCycle ==
  /\ \E chosen \in SUBSET { CycleArcs[i].edge_leg.id : i \in 1..Len(CycleArcs) } :
       adj = CycleAdjacency(chosen)
  /\ \E ids \in { <<1>>, <<2>>, <<1, 2>> } :
       originSpec = [ nodes |-> [ i \in 1..Len(ids) |-> SpecNode(ids[i]) ] ]
  /\ destSpec = [ isArea |-> TRUE, nodes |-> <<>> ]
  /\ params \in { [ x \in {} |-> 0 ], [ timeValuePerHour |-> 0 ] }
  /\ now = 0
  /\ startTime = 0
  /\ frontier = Seeds(originSpec.nodes, 0)
  /\ dominanceMap = [ x \in {} |-> Num(0) ]
  /\ bestCost = Null
  /\ bestState = <<>>
  /\ expansions = 0
  /\ pc = "loop"
  /\ result = NoResult
  /\ popped = <<>>
  /\ arcLog = <<>>
  /\ generated = <<>>
  /\ CacheUnused
  /\ StoreUnused

RECURSIVE PushSuccessors(_, _, _, _)
\* lines 363-389 without lines 365-367, from leg i on; acc carries the
\* frontier, the dominance map and the history of the successors
PushSuccessors(state, legs, i, acc) ==
  IF i > Len(legs) THEN acc
  ELSE
    LET leg == legs[i]
        c == computeLegGeneralizedCost(state, leg, params)
        newState == createState(leg.edge_leg.destination_node_id,
                                leg.offer.arrival_time_utc,
                                c.newGenCost, c.newTransfers,
                                Append(state.path, leg))
        d == isDominated(newState, acc.dom)
    IN PushSuccessors(state, legs, i + 1,
         [ frontier |-> IF d.dominated THEN acc.frontier
                        ELSE Append(acc.frontier, newState),
           dom |-> d.map,
           gen |-> Append(acc.gen, [ state |-> newState, dropped |-> d.dominated,
                                     from |-> state ]) ])

\* one pass of the loop: lines 309-312 and 359-389 without lines 365-367
ExpandUnpruned ==
  /\ pc = "loop"
  /\ frontier # <<>>
  /\ Len(generated) < MaxGenerated
  /\ LET sorted == SortFrontier(frontier)
         state == Head(sorted)
         done == PushSuccessors(state, Outgoing(adj, state.nodeId), 1,
                   [ frontier |-> Tail(sorted), dom |-> dominanceMap,
                     gen |-> generated ])
     IN /\ expansions' = expansions + 1
        /\ popped' = Append(popped, state)
        /\ frontier' = done.frontier
        /\ dominanceMap' = done.dom
        /\ generated' = done.gen
  /\ UNCHANGED << adj, originSpec, destSpec, params, bestCost, bestState,
                  startTime, now, pc, result, arcLog >>
  /\ UNCHANGED cacheVars
  /\ UNCHANGED storeVars

NextCycle == ExpandUnpruned

SpecCycle == InitCycle /\ [][NextCycle]_vars

=============================================================================
